---------------------------- MODULE Spec2Model ----------------------------
(***************************************************************************)
(* Model of the kraph relational store (src-tauri/src/database.rs) and of  *)
(* the persist phases of save / edit (src-tauri/src/lib.rs).               *)
(*                                                                         *)
(* The SQLite connection is one record `db` holding the five tables, the   *)
(* two AUTOINCREMENT counters the program observes and the foreign_keys    *)
(* pragma.  Every SQL statement is an operator from a store to an outcome  *)
(* [db, err]; a function of database.rs is the sequence of its statements  *)
(* with the `?` early return after each one.  Outside a transaction every  *)
(* statement autocommits, so an error leaves the statements before it in   *)
(* place.                                                                  *)
(***************************************************************************)
EXTENDS Integers, Sequences, FiniteSets, TLC

VARIABLES
    db,     \* the connection: tables, AUTOINCREMENT counters, foreign_keys
    last,   \* the operation that produced db: name, arguments, result
    calls,  \* per relation triple: upsert_relation calls since its row appeared
    ops,    \* number of commands run so far
    pc,     \* per command thread: the step it is at and its memory id
    lock,   \* the thread holding the DbState mutex, 0 when it is free
    partial \* TRUE while db holds only part of a persist phase's writes

vars == <<db, last, calls, ops, pc, lock, partial>>

(***************************************************************************)
(* Bounds of the model                                                     *)
(***************************************************************************)
MaxEntityId == 3
MaxMemoryId == 2
MaxStrength == 3
MaxPayloadEntities == 2
MaxPayloadAliases == 1
MaxPayloadRelations == 1
MaxOps == 3
MaxRelationRows == 2
MaxStoreEntityId == 2
MaxStoreStrength == 2
MaxPruneOps == 4
MaxCleanupOps == 2
MaxProcs == 2
MaxFlowOps == 3

Names == {"a", "b", "c"}
PayloadNames == {"a", "b"}
Types == {"Person", "Location"}
RelTypes == {"ally"}
Contents == {"note1"}

\* Option<i64>::None of find_entity_id_by_name_or_alias; row ids start at 1
None == 0

\* attributes TEXT column: SQL NULL, or the text of a JSON object given by
\* its set of <<field, value>> members
NullAttr == [isNull |-> TRUE, fields |-> {}]
RankCaptain == [isNull |-> FALSE, fields |-> {<<"rank", "captain">>}]
Age30 == [isNull |-> FALSE, fields |-> {<<"age", "30">>}]
AttrValues == {NullAttr, RankCaptain, Age30}

Max(S) == CHOOSE x \in S : \A y \in S : y <= x

(***************************************************************************)
(* The store                                                               *)
(***************************************************************************)
EmptyDb ==
    [entities |-> {}, entity_aliases |-> {}, relations |-> {},
     memories |-> {}, memory_entities |-> {},
     seq_entities |-> 0, seq_memories |-> 0, foreign_keys |-> TRUE]

EntityIds(d) == {e.id : e \in d.entities}
MemoryIds(d) == {m.id : m \in d.memories}

Ok(d) == [db |-> d, err |-> FALSE]
Err(d) == [db |-> d, err |-> TRUE]

\* the `?` operator: run the next statement only when the previous succeeded
Then(r, F(_)) == IF r.err THEN r ELSE F(r.db)

\* rows of relations whose endpoint entity is missing
DanglingRelations(d) ==
    {r \in d.relations : r.from_entity_id \notin EntityIds(d)
                         \/ r.to_entity_id \notin EntityIds(d)}

\* entities no memory_entities row references
UnlinkedEntities(d) ==
    {e \in d.entities : \A l \in d.memory_entities : l.entity_id # e.id}

(***************************************************************************)
(* SQL statements                                                          *)
(***************************************************************************)
\* DELETE FROM entities WHERE id IN ids.  With foreign keys enforced the
\* alias and link rows cascade, and a relation row left referencing a
\* deleted entity (no ON DELETE action) fails the whole statement.
DeleteEntities(d, ids) ==
    IF d.foreign_keys
    THEN IF \E r \in d.relations : r.from_entity_id \in ids \/ r.to_entity_id \in ids
         THEN Err(d)
         ELSE Ok([d EXCEPT
                 !.entities = {e \in @ : e.id \notin ids},
                 !.entity_aliases = {a \in @ : a.entity_id \notin ids},
                 !.memory_entities = {l \in @ : l.entity_id \notin ids}])
    ELSE Ok([d EXCEPT !.entities = {e \in @ : e.id \notin ids}])

\* DELETE FROM memories WHERE id = ?1
DeleteMemoryRow(d, id) ==
    IF d.foreign_keys
    THEN Ok([d EXCEPT !.memories = {m \in @ : m.id # id},
                      !.memory_entities = {l \in @ : l.memory_id # id}])
    ELSE Ok([d EXCEPT !.memories = {m \in @ : m.id # id}])

\* DELETE FROM relations WHERE from_entity_id NOT IN (SELECT id FROM entities)
\*                          OR to_entity_id NOT IN (SELECT id FROM entities)
DeleteDanglingRelations(d) ==
    Ok([d EXCEPT !.relations = @ \ DanglingRelations(d)])

\* the same statement deleting one row only (as with LIMIT 1)
DeleteUnlinkedEntities_one_row(d) ==
    DeleteEntities(d, {i \in {e.id : e \in UnlinkedEntities(d)} :
                          \A e \in UnlinkedEntities(d) : i <= e.id})

\* DELETE FROM entities WHERE id NOT IN (SELECT DISTINCT entity_id FROM memory_entities)
DeleteUnlinkedEntities(d) ==
    DeleteEntities(d, {e.id : e \in UnlinkedEntities(d)})


\* PRAGMA foreign_keys = ON / OFF (outside a transaction)
SetForeignKeys(d, on) == Ok([d EXCEPT !.foreign_keys = on])

\* AUTOINCREMENT: one more than the largest rowid the table ever held
NextId(seq, ids) == Max(ids \cup {seq}) + 1

(***************************************************************************)
(* database.rs                                                             *)
(***************************************************************************)
\* upsert_entity without the ON CONFLICT(type, name) target: a plain insert
upsert_entity_plain_insert(d, entity_type, name, attributes) ==
    LET id == NextId(d.seq_entities, EntityIds(d))
    IN  [db |-> [d EXCEPT
                   !.entities = @ \cup {[id |-> id, type |-> entity_type,
                                         name |-> name, attributes |-> attributes]},
                   !.seq_entities = id],
         err |-> FALSE, id |-> id]

\* INSERT ... ON CONFLICT(type, name) DO UPDATE SET
\*     attributes = COALESCE(excluded.attributes, attributes)
\* followed by SELECT id ... WHERE type = ?1 AND name = ?2.
\* The outcome carries the returned id.
upsert_entity(d, entity_type, name, attributes) ==
    LET existing == {e \in d.entities : e.type = entity_type /\ e.name = name}
    IN  IF existing # {}
        THEN LET old == CHOOSE e \in existing : TRUE
                 new == [old EXCEPT !.attributes =
                            IF attributes.isNull THEN old.attributes ELSE attributes]
             IN  [db |-> [d EXCEPT !.entities = (@ \ {old}) \cup {new}],
                  err |-> FALSE, id |-> old.id]
        ELSE LET id == NextId(d.seq_entities, EntityIds(d))
             IN  [db |-> [d EXCEPT
                            !.entities = @ \cup {[id |-> id, type |-> entity_type,
                                                  name |-> name,
                                                  attributes |-> attributes]},
                            !.seq_entities = id],
                  err |-> FALSE, id |-> id]

\* SELECT ... FROM entities WHERE id = ?1; TRUE when the query returns a row
EntityExists(d, id) == id \in EntityIds(d)

get_entity_by_id(d, id) == CHOOSE e \in d.entities : e.id = id

\* INSERT OR IGNORE INTO entity_aliases (entity_id, alias): a row with the
\* same alias string makes the insert a silent no-op; otherwise the owner
\* must exist when foreign keys are enforced.
add_entity_alias(d, entity_id, alias) ==
    IF \E a \in d.entity_aliases : a.alias = alias
    THEN Ok(d)
    ELSE IF d.foreign_keys /\ entity_id \notin EntityIds(d)
         THEN Err(d)
         ELSE Ok([d EXCEPT !.entity_aliases =
                     @ \cup {[entity_id |-> entity_id, alias |-> alias]}])

get_entity_aliases(d, entity_id) ==
    {a.alias : a \in {x \in d.entity_aliases : x.entity_id = entity_id}}

\* the characters of the names the model uses
Chars(name) ==
    CASE name = "ab" -> <<"a", "b">>
      [] OTHER -> <<name>>

\* name LIKE '%' || pattern || '%'
Like(name, pattern) ==
    \E i \in 1..Len(Chars(name)) :
        /\ i + Len(Chars(pattern)) - 1 <= Len(Chars(name))
        /\ SubSeq(Chars(name), i, i + Len(Chars(pattern)) - 1) = Chars(pattern)

\* the lookup with the LIKE patterns of get_entity_by_name
find_entity_id_by_name_or_alias_like(d, name) ==
    LET byName == {e.id : e \in {x \in d.entities : Like(x.name, name)}}
        byAlias == {a.entity_id : a \in {x \in d.entity_aliases : Like(x.alias, name)}}
    IN  IF byName # {} THEN byName
        ELSE IF byAlias # {} THEN byAlias
        ELSE {None}

\* Exact name first, alias second.  Both queries are LIMIT 1 without ORDER
\* BY, so with several matching rows any of them may be the one returned:
\* the operator gives the set of ids the call can return ({None} for no hit).
find_entity_id_by_name_or_alias(d, name) ==
    LET byName == {e.id : e \in {x \in d.entities : x.name = name}}
        byAlias == {a.entity_id : a \in {x \in d.entity_aliases : x.alias = name}}
    IN  IF byName # {} THEN byName
        ELSE IF byAlias # {} THEN byAlias
        ELSE {None}

\* UPDATE OR IGNORE entity_aliases SET entity_id = ?1 WHERE entity_id = ?2
ReassignAliases(d, source_id, target_id) ==
    LET rows == {a \in d.entity_aliases : a.entity_id = source_id}
    IN  IF rows = {} THEN Ok(d)
        ELSE IF d.foreign_keys /\ target_id \notin EntityIds(d) THEN Err(d)
        ELSE Ok([d EXCEPT !.entity_aliases =
                    (@ \ rows) \cup {[a EXCEPT !.entity_id = target_id] : a \in rows}])

\* merge_entities without its step 2
ReassignLinks_skipped(d, source_id, target_id) == Ok(d)

\* UPDATE OR IGNORE memory_entities SET entity_id = ?1 WHERE entity_id = ?2
\* (a row whose new key already exists is left as it is)
ReassignLinks(d, source_id, target_id) ==
    LET rows == {l \in d.memory_entities : l.entity_id = source_id}
        moved == {l \in rows : source_id = target_id
                     \/ [l EXCEPT !.entity_id = target_id] \notin d.memory_entities}
    IN  IF moved = {} THEN Ok(d)
        ELSE IF d.foreign_keys /\ target_id \notin EntityIds(d) THEN Err(d)
        ELSE Ok([d EXCEPT !.memory_entities =
                    (@ \ moved) \cup {[l EXCEPT !.entity_id = target_id] : l \in moved}])

\* TRUE when relations holds a row with this triple
HasTriple(d, from, to, type) ==
    \E r \in d.relations : /\ r.from_entity_id = from
                           /\ r.to_entity_id = to
                           /\ r.relation_type = type

\* step 3 of merge_entities as UPDATE OR REPLACE: a colliding row of the
\* target is replaced by the source's row
ReassignRelationsFrom_or_replace(d, source_id, target_id) ==
    LET rows == {r \in d.relations : r.from_entity_id = source_id}
        hit == {r \in d.relations : r.from_entity_id = target_id /\
                   \E m \in rows : /\ m.to_entity_id = r.to_entity_id
                                   /\ m.relation_type = r.relation_type}
    IN  IF rows = {} THEN Ok(d)
        ELSE IF d.foreign_keys /\ target_id \notin EntityIds(d) THEN Err(d)
        ELSE Ok([d EXCEPT !.relations =
                    ((@ \ rows) \ hit)
                        \cup {[r EXCEPT !.from_entity_id = target_id] : r \in rows}])

\* UPDATE OR IGNORE relations SET from_entity_id = ?1 WHERE from_entity_id = ?2
ReassignRelationsFrom(d, source_id, target_id) ==
    LET rows == {r \in d.relations : r.from_entity_id = source_id}
        moved == {r \in rows : source_id = target_id
                     \/ ~HasTriple(d, target_id, r.to_entity_id, r.relation_type)}
    IN  IF moved = {} THEN Ok(d)
        ELSE IF d.foreign_keys /\ target_id \notin EntityIds(d) THEN Err(d)
        ELSE Ok([d EXCEPT !.relations =
                    (@ \ moved) \cup {[r EXCEPT !.from_entity_id = target_id] : r \in moved}])

\* merge_entities without its step 4
ReassignRelationsTo_skipped(d, source_id, target_id) == Ok(d)

\* UPDATE OR IGNORE relations SET to_entity_id = ?1 WHERE to_entity_id = ?2
ReassignRelationsTo(d, source_id, target_id) ==
    LET rows == {r \in d.relations : r.to_entity_id = source_id}
        moved == {r \in rows : source_id = target_id
                     \/ ~HasTriple(d, r.from_entity_id, target_id, r.relation_type)}
    IN  IF moved = {} THEN Ok(d)
        ELSE IF d.foreign_keys /\ target_id \notin EntityIds(d) THEN Err(d)
        ELSE Ok([d EXCEPT !.relations =
                    (@ \ moved) \cup {[r EXCEPT !.to_entity_id = target_id] : r \in moved}])

\* DELETE FROM relations WHERE from_entity_id = ?1 OR to_entity_id = ?1
DeleteRelationsOf(d, id) ==
    Ok([d EXCEPT !.relations =
           {r \in @ : r.from_entity_id # id /\ r.to_entity_id # id}])

\* merge_entities without its step 7
RetireSource_no_delete(d, source_id, target_id) ==
    IF ~EntityExists(d, source_id) THEN Err(d)
    ELSE add_entity_alias(d, target_id, get_entity_by_id(d, source_id).name)

\* steps 6 and 7 of merge_entities: read the source row (an error when it
\* is missing), register its name as an alias of target, delete the row
RetireSource(d, source_id, target_id) ==
    IF ~EntityExists(d, source_id) THEN Err(d)
    ELSE Then(add_entity_alias(d, target_id, get_entity_by_id(d, source_id).name),
              LAMBDA d7 : DeleteEntities(d7, {source_id}))

merge_entities(d, source_id, target_id) ==
    Then(Then(Then(Then(Then(ReassignAliases(d, source_id, target_id),
        LAMBDA d2 : ReassignLinks(d2, source_id, target_id)),
        LAMBDA d3 : ReassignRelationsFrom(d3, source_id, target_id)),
        LAMBDA d4 : ReassignRelationsTo(d4, source_id, target_id)),
        LAMBDA d5 : DeleteRelationsOf(d5, source_id)),
        LAMBDA d6 : RetireSource(d6, source_id, target_id))

\* upsert_relation with ON CONFLICT ... DO NOTHING
upsert_relation_do_nothing(d, from_entity_id, to_entity_id, relation_type) ==
    IF HasTriple(d, from_entity_id, to_entity_id, relation_type)
    THEN Ok(d)
    ELSE IF d.foreign_keys /\ (from_entity_id \notin EntityIds(d)
                               \/ to_entity_id \notin EntityIds(d))
         THEN Err(d)
         ELSE Ok([d EXCEPT !.relations =
                     @ \cup {[from_entity_id |-> from_entity_id,
                              to_entity_id |-> to_entity_id,
                              relation_type |-> relation_type,
                              strength |-> 1]}])

\* INSERT ... VALUES (?1, ?2, ?3, 1)
\* ON CONFLICT(from, to, relation_type) DO UPDATE SET strength = strength + 1
upsert_relation(d, from_entity_id, to_entity_id, relation_type) ==
    IF HasTriple(d, from_entity_id, to_entity_id, relation_type)
    THEN LET old == CHOOSE r \in d.relations :
                        /\ r.from_entity_id = from_entity_id
                        /\ r.to_entity_id = to_entity_id
                        /\ r.relation_type = relation_type
         IN  Ok([d EXCEPT !.relations =
                    (@ \ {old}) \cup {[old EXCEPT !.strength = @ + 1]}])
    ELSE IF d.foreign_keys /\ (from_entity_id \notin EntityIds(d)
                               \/ to_entity_id \notin EntityIds(d))
         THEN Err(d)
         ELSE Ok([d EXCEPT !.relations =
                     @ \cup {[from_entity_id |-> from_entity_id,
                              to_entity_id |-> to_entity_id,
                              relation_type |-> relation_type,
                              strength |-> 1]}])

\* INSERT INTO memories ...; the outcome carries last_insert_rowid()
insert_memory(d, content) ==
    LET id == NextId(d.seq_memories, MemoryIds(d))
    IN  [db |-> [d EXCEPT !.memories = @ \cup {[id |-> id, content |-> content]},
                          !.seq_memories = id],
         err |-> FALSE, id |-> id]

\* the insert without the foreign keys of memory_entities
link_memory_entity_unchecked(d, memory_id, entity_id) ==
    Ok([d EXCEPT !.memory_entities =
           @ \cup {[memory_id |-> memory_id, entity_id |-> entity_id]}])

\* INSERT OR IGNORE INTO memory_entities (memory_id, entity_id)
link_memory_entity(d, memory_id, entity_id) ==
    LET row == [memory_id |-> memory_id, entity_id |-> entity_id]
    IN  IF row \in d.memory_entities THEN Ok(d)
        ELSE IF d.foreign_keys /\ (memory_id \notin MemoryIds(d)
                                   \/ entity_id \notin EntityIds(d))
             THEN Err(d)
             ELSE Ok([d EXCEPT !.memory_entities = @ \cup {row}])

\* SELECT ... FROM memories WHERE id = ?1; TRUE when the query returns a row
MemoryExists(d, id) == id \in MemoryIds(d)

\* UPDATE memories SET content = ?1, tags = ?2 WHERE id = ?3
update_memory(d, id, content) ==
    Ok([d EXCEPT !.memories =
           {IF m.id = id THEN [m EXCEPT !.content = content] ELSE m : m \in @}])

\* DELETE FROM memory_entities WHERE memory_id = ?1
clear_memory_entities(d, memory_id) ==
    Ok([d EXCEPT !.memory_entities = {l \in @ : l.memory_id # memory_id}])

delete_memory(d, id) ==
    Then(Then(Then(DeleteMemoryRow(d, id),
        LAMBDA d2 : DeleteDanglingRelations(d2)),
        LAMBDA d3 : DeleteUnlinkedEntities(d3)),
        LAMBDA d4 : DeleteDanglingRelations(d4))

\* DELETE FROM memory_entities WHERE memory_id NOT IN (SELECT id FROM memories)
DeleteLinksOfMissingMemories(d) ==
    Ok([d EXCEPT !.memory_entities = {l \in @ : l.memory_id \in MemoryIds(d)}])

\* DELETE FROM memory_entities WHERE entity_id NOT IN (SELECT id FROM entities)
DeleteLinksOfMissingEntities(d) ==
    Ok([d EXCEPT !.memory_entities = {l \in @ : l.entity_id \in EntityIds(d)}])

\* cleanup_database without its second pass on relations
cleanup_database_single_pass(d) ==
    Then(Then(Then(Then(Then(SetForeignKeys(d, FALSE),
        LAMBDA d1 : DeleteLinksOfMissingMemories(d1)),
        LAMBDA d2 : DeleteLinksOfMissingEntities(d2)),
        LAMBDA d3 : DeleteDanglingRelations(d3)),
        LAMBDA d4 : DeleteUnlinkedEntities(d4)),
        LAMBDA d6 : SetForeignKeys(d6, TRUE))

cleanup_database(d) ==
    Then(Then(Then(Then(Then(Then(SetForeignKeys(d, FALSE),
        LAMBDA d1 : DeleteLinksOfMissingMemories(d1)),
        LAMBDA d2 : DeleteLinksOfMissingEntities(d2)),
        LAMBDA d3 : DeleteDanglingRelations(d3)),
        LAMBDA d4 : DeleteUnlinkedEntities(d4)),
        LAMBDA d5 : DeleteDanglingRelations(d5)),
        LAMBDA d6 : SetForeignKeys(d6, TRUE))

\* clear_all_data without DELETE FROM sqlite_sequence
clear_all_data_keeps_sequence(d) ==
    Ok([EmptyDb EXCEPT !.seq_entities = d.seq_entities,
                       !.seq_memories = d.seq_memories,
                       !.foreign_keys = TRUE])

\* DELETE FROM each table, DELETE FROM sqlite_sequence, foreign keys off
\* around the whole sequence
clear_all_data(d) ==
    Ok([EmptyDb EXCEPT !.foreign_keys = TRUE])

\* GraphNode of an entity row; the id is exported as its decimal string
GraphNode(e) ==
    [id |-> ToString(e.id), name |-> e.name, type |-> e.type,
     attributes |-> e.attributes]

\* GraphLink of a relation row
GraphLink(r) ==
    [source |-> ToString(r.from_entity_id), target |-> ToString(r.to_entity_id),
     relation |-> r.relation_type, strength |-> r.strength]

\* get_graph_data without the filter on the endpoints
get_graph_data_unfiltered(d) ==
    [err |-> FALSE,
     nodes |-> {GraphNode(e) : e \in d.entities},
     links |-> {GraphLink(r) : r \in d.relations}]

\* list_entities, list_relations, then the links of the relations whose
\* two ids are keys of id_to_name
get_graph_data(d) ==
    LET id_to_name == [i \in EntityIds(d) |->
                          (CHOOSE e \in d.entities : e.id = i).name]
    IN  [err |-> FALSE,
         nodes |-> {GraphNode(e) : e \in d.entities},
         links |-> {GraphLink(r) :
                      r \in {x \in d.relations :
                                /\ x.from_entity_id \in DOMAIN id_to_name
                                /\ x.to_entity_id \in DOMAIN id_to_name}}]

\* the orphan pruning the edit runs inside its transaction: dangling
\* relations, unlinked entities, dangling relations again
prune_orphan_entities_and_relations(d) ==
    Then(Then(DeleteDanglingRelations(d),
        LAMBDA d2 : DeleteUnlinkedEntities(d2)),
        LAMBDA d3 : DeleteDanglingRelations(d3))

(***************************************************************************)
(* lib.rs: persist phases of do_save_memory and do_update_memory           *)
(***************************************************************************)
\* what the model calls hand to the persist phase
PayloadAttrs == {NullAttr}
ExtractedEntity == [type : Types, name : PayloadNames, attributes : PayloadAttrs]
EntityAlias == [primary : PayloadNames, alias : PayloadNames]
ExtractedRelation == [from : PayloadNames, to : PayloadNames, relation : RelTypes]

SeqsUpTo(S, n) == UNION {[1..k -> S] : k \in 0..n}

\* name_to_id: HashMap<String, i64>, None for a name without an entry
EmptyMap == [n \in Names |-> None]

\* the entity loop resolving by (type, name) only
ResolveEntity_by_type_and_name(c, e, memory_id) ==
    IF c.err THEN {c}
    ELSE {LET r1 == upsert_entity(c.db, e.type, e.name, e.attributes)
              r2 == link_memory_entity(r1.db, memory_id, r1.id)
          IN  [db |-> r2.db, err |-> r2.err,
               map |-> IF r2.err THEN c.map ELSE [c.map EXCEPT ![e.name] = r1.id]]}

\* one iteration of `for e in &entities`: resolve by name or alias, create
\* when nothing matches, link to the memory, record the id under the name.
\* The result is the set of contexts the iteration can end in.
ResolveEntity(c, e, memory_id) ==
    IF c.err THEN {c}
    ELSE {LET r1 == IF id # None
                    THEN [db |-> c.db, err |-> FALSE, id |-> id]
                    ELSE upsert_entity(c.db, e.type, e.name, e.attributes)
              r2 == link_memory_entity(r1.db, memory_id, r1.id)
          IN  [db |-> r2.db, err |-> r2.err,
               map |-> IF r2.err THEN c.map ELSE [c.map EXCEPT ![e.name] = r1.id]]
          : id \in find_entity_id_by_name_or_alias(c.db, e.name)}

RECURSIVE PersistEntities(_, _, _)
PersistEntities(cs, es, memory_id) ==
    IF es = <<>> THEN cs
    ELSE PersistEntities(UNION {ResolveEntity(c, Head(es), memory_id) : c \in cs},
                         Tail(es), memory_id)

\* one iteration of `for alias_info in &aliases`
ApplyAlias(c, alias_info) ==
    LET pid == c.map[alias_info.primary]
        aid == c.map[alias_info.alias]
    IN  IF c.err THEN c
        ELSE IF pid # None /\ aid # None /\ pid # aid
        THEN LET r == merge_entities(c.db, aid, pid)
             IN  [db |-> r.db, err |-> r.err,
                  map |-> IF r.err THEN c.map
                          ELSE [c.map EXCEPT ![alias_info.alias] = pid]]
        ELSE IF pid # None /\ aid = None
        THEN LET r == add_entity_alias(c.db, pid, alias_info.alias)
             IN  [c EXCEPT !.db = r.db, !.err = r.err]
        ELSE c

RECURSIVE PersistAliases(_, _)
PersistAliases(c, as) ==
    IF as = <<>> THEN c ELSE PersistAliases(ApplyAlias(c, Head(as)), Tail(as))

\* the relation loop with a name that has no entry treated as an error
ApplyRelation_unknown_name_fails(c, r) ==
    LET from_id == c.map[r.from]
        to_id == c.map[r.to]
    IN  IF c.err THEN c
        ELSE IF from_id # None /\ to_id # None
        THEN [c EXCEPT !.db = upsert_relation(c.db, from_id, to_id, r.relation).db]
        ELSE [c EXCEPT !.err = TRUE]

\* one iteration of `for r in &relations`; the result of upsert_relation
\* is dropped (`let _ =`), a failed statement changes nothing
ApplyRelation(c, r) ==
    LET from_id == c.map[r.from]
        to_id == c.map[r.to]
    IN  IF c.err THEN c
        ELSE IF from_id # None /\ to_id # None
        THEN [c EXCEPT !.db = upsert_relation(c.db, from_id, to_id, r.relation).db]
        ELSE c

RECURSIVE PersistRelations(_, _)
PersistRelations(c, rs) ==
    IF rs = <<>> THEN c ELSE PersistRelations(ApplyRelation(c, Head(rs)), Tail(rs))

\* the three loops shared by save and edit
PersistGraph(d, memory_id, p) ==
    {PersistRelations(PersistAliases(c, p.aliases), p.relations)
        : c \in PersistEntities({[db |-> d, err |-> FALSE, map |-> EmptyMap]},
                                p.entities, memory_id)}

\* the end of do_save_memory's persist phase in context c: the first error
\* of the loops, or that of get_memory_by_id
SaveReturn(c, memory_id) ==
    [db |-> c.db, err |-> c.err \/ ~MemoryExists(c.db, memory_id)]

\* do_save_memory, step 4: no transaction, every statement autocommits
SavePersist(d, content, p) ==
    LET m == insert_memory(d, content)
    IN  {SaveReturn(c, m.id) : c \in PersistGraph(m.db, m.id, p)}

\* the end of do_update_memory's transaction opened on store d, the loops
\* having ended in context c: prune, commit, get_memory_by_id
EditCommit(d, memory_id, c) ==
    IF c.err THEN Err(d)
    ELSE LET r == prune_orphan_entities_and_relations(c.db)
         IN  IF r.err THEN Err(d)
             ELSE [db |-> r.db, err |-> ~MemoryExists(r.db, memory_id)]

\* the same steps with every statement autocommitted
EditPersist_no_transaction(d, memory_id, content, p) ==
    LET d1 == clear_memory_entities(update_memory(d, memory_id, content).db,
                                    memory_id).db
    IN  {IF c.err THEN Err(c.db)
         ELSE LET r == prune_orphan_entities_and_relations(c.db)
              IN  IF r.err THEN Err(r.db)
                  ELSE [db |-> r.db, err |-> ~MemoryExists(r.db, memory_id)]
         : c \in PersistGraph(d1, memory_id, p)}

\* do_update_memory, step 4: one transaction; an error before commit drops
\* the transaction (rollback), get_memory_by_id runs after the commit
EditPersist(d, memory_id, content, p) ==
    LET d1 == clear_memory_entities(update_memory(d, memory_id, content).db,
                                    memory_id).db
    IN  {EditCommit(d, memory_id, c) : c \in PersistGraph(d1, memory_id, p)}

\* knowledge fusion (the only source of alias entries) runs only when the
\* retrieval found historical memories, which needs a stored memory other
\* than the excluded one that is linked to a stored entity
HasHistory(d, exclude_memory_id) ==
    \E l \in d.memory_entities :
        /\ l.memory_id # exclude_memory_id
        /\ l.memory_id \in MemoryIds(d)
        /\ l.entity_id \in EntityIds(d)

Payloads(d, exclude_memory_id) ==
    [entities : SeqsUpTo(ExtractedEntity, MaxPayloadEntities),
     aliases : IF HasHistory(d, exclude_memory_id)
               THEN SeqsUpTo(EntityAlias, MaxPayloadAliases) ELSE {<<>>},
     relations : SeqsUpTo(ExtractedRelation, MaxPayloadRelations)]

\* the model keeps ids and strengths inside its bounds
WithinBounds(d) ==
    /\ d.seq_entities <= MaxEntityId
    /\ d.seq_memories <= MaxMemoryId
    /\ \A r \in d.relations : r.strength <= MaxStrength

\* the part of the store explored when database.rs is called directly
WithinStoreBounds(d) ==
    /\ d.seq_entities <= MaxStoreEntityId
    /\ \A r \in d.relations : r.strength <= MaxStoreStrength

(***************************************************************************)
(* State machine                                                           *)
(***************************************************************************)
Triples == (1..MaxEntityId) \X (1..MaxEntityId) \X RelTypes

\* record of the operation that produced the current state: its name, its
\* arguments, the id it returned, whether it returned Err, and (for the
\* store-level operations) the store it was called on
NoOp ==
    [op |-> "init", err |-> FALSE, pre |-> EmptyDb, source_id |-> 0,
     target_id |-> 0, memory_id |-> 0, name |-> "", type |-> "",
     attributes |-> NullAttr, relation_type |-> "", returned |-> 0]

NoCalls == [t \in Triples |-> 0]

\* rows of relations with triple t
RowsOf(d, t) ==
    {r \in d.relations : /\ r.from_entity_id = t[1]
                         /\ r.to_entity_id = t[2]
                         /\ r.relation_type = t[3]}

\* bookkeeping of `calls` for an operation other than upsert_relation: the
\* count of a triple is kept while its row is untouched and dropped (0, not
\* counted) once the row is deleted, rewritten or created by something else
Track(c, d, d2) ==
    [t \in Triples |->
        IF RowsOf(d, t) # {} /\ RowsOf(d2, t) = RowsOf(d, t) THEN c[t] ELSE 0]

\* bookkeeping of `calls` for upsert_relation on triple t: 1 when the call
\* created the row, one more when the row is being counted
TrackUpsert(c, d, t, err) ==
    IF err \/ t \notin Triples THEN c
    ELSE [c EXCEPT ![t] = IF RowsOf(d, t) = {} THEN 1
                          ELSE IF @ > 0 THEN @ + 1 ELSE 0]

\* the command threads: every thread idle, the mutex free
Procs == 1..MaxProcs

Idle == [at |-> "idle", memory_id |-> 0]

NoFlow ==
    /\ pc = [p \in Procs |-> Idle]
    /\ lock = 0
    /\ partial = FALSE

Init ==
    /\ db = EmptyDb
    /\ last = NoOp
    /\ calls = NoCalls
    /\ ops = 0
    /\ NoFlow

\* save_memory: the persist phase of do_save_memory
Save(content, p) ==
    /\ \E out \in SavePersist(db, content, p) :
          /\ WithinBounds(out.db)
          /\ db' = out.db
          /\ last' = [NoOp EXCEPT !.op = "save", !.err = out.err,
                                  !.memory_id = NextId(db.seq_memories, MemoryIds(db))]
    /\ calls' = Track(calls, db, db')

\* update_memory_content: the persist phase of do_update_memory
Edit(memory_id, content, p) ==
    /\ \E out \in EditPersist(db, memory_id, content, p) :
          /\ WithinBounds(out.db)
          /\ db' = out.db
          /\ last' = [NoOp EXCEPT !.op = "edit", !.err = out.err,
                                  !.memory_id = memory_id]
    /\ calls' = Track(calls, db, db')

\* delete_memory_by_id
DeleteMemory(memory_id) ==
    /\ LET out == delete_memory(db, memory_id)
       IN  /\ db' = out.db
           /\ last' = [NoOp EXCEPT !.op = "delete_memory", !.err = out.err,
                                   !.pre = db, !.memory_id = memory_id]
    /\ calls' = Track(calls, db, db')

\* cleanup_db
Cleanup ==
    /\ LET out == cleanup_database(db)
       IN  /\ db' = out.db
           /\ last' = [NoOp EXCEPT !.op = "cleanup_database", !.err = out.err,
                                   !.pre = db]
    /\ calls' = Track(calls, db, db')

\* clear_all_data_cmd
ClearAll ==
    /\ LET out == clear_all_data(db)
       IN  /\ db' = out.db
           /\ last' = [NoOp EXCEPT !.op = "clear_all_data", !.err = out.err,
                                   !.pre = db]
    /\ calls' = Track(calls, db, db')

MergeEntities(source_id, target_id) ==
    /\ LET out == merge_entities(db, source_id, target_id)
       IN  /\ db' = out.db
           /\ last' = [NoOp EXCEPT !.op = "merge_entities", !.err = out.err,
                                   !.pre = db, !.source_id = source_id,
                                   !.target_id = target_id]
    /\ calls' = Track(calls, db, db')

\* the commands of the application, MaxOps of them in a run
Next ==
    /\ ops < MaxOps
    /\ ops' = ops + 1
    /\ UNCHANGED <<pc, lock, partial>>
    /\ \/ \E c \in Contents : \E p \in Payloads(db, None) : Save(c, p)
       \/ \E m \in 1..MaxMemoryId : \E c \in Contents :
             \E p \in Payloads(db, m) : Edit(m, c, p)
       \/ \E m \in 1..MaxMemoryId : DeleteMemory(m)
       \/ Cleanup
       \/ ClearAll
       \/ \E s, t \in 1..MaxEntityId : s # t /\ MergeEntities(s, t)

Spec == Init /\ [][Next]_vars

(***************************************************************************)
(* Store-level specifications: the public functions of database.rs called  *)
(* directly                                                                *)
(***************************************************************************)
UpsertEntity(entity_type, name, attributes) ==
    /\ LET out == upsert_entity(db, entity_type, name, attributes)
       IN  /\ WithinStoreBounds(out.db)
           /\ db' = out.db
           /\ last' = [NoOp EXCEPT !.op = "upsert_entity", !.err = out.err,
                                   !.pre = db, !.type = entity_type,
                                   !.name = name, !.attributes = attributes,
                                   !.returned = out.id]
    /\ calls' = Track(calls, db, db')

UpsertRelation(from_entity_id, to_entity_id, relation_type) ==
    /\ LET out == upsert_relation(db, from_entity_id, to_entity_id, relation_type)
       IN  /\ WithinStoreBounds(out.db)
           /\ Cardinality(out.db.relations) <= MaxRelationRows
           /\ db' = out.db
           /\ last' = [NoOp EXCEPT !.op = "upsert_relation", !.err = out.err,
                                   !.source_id = from_entity_id,
                                   !.target_id = to_entity_id,
                                   !.relation_type = relation_type]
           /\ calls' = TrackUpsert(calls, db,
                          <<from_entity_id, to_entity_id, relation_type>>, out.err)

\* entities only: upserts with every type and attribute value, merges
NextEntity ==
    /\ UNCHANGED <<ops, pc, lock, partial>>
    /\ \/ \E ty \in Types : \E n \in PayloadNames : \E at \in AttrValues :
             UpsertEntity(ty, n, at)
       \/ \E s, t \in 1..MaxStoreEntityId : MergeEntities(s, t)

SpecEntity == Init /\ [][NextEntity]_vars

\* relations between entities of one type: upserts, and the operations
\* that delete or rewrite relation rows
NextRelation ==
    /\ UNCHANGED <<ops, pc, lock, partial>>
    /\ \/ \E n \in PayloadNames : UpsertEntity("Person", n, NullAttr)
       \/ \E f, t \in 1..MaxStoreEntityId : \E ty \in RelTypes :
             UpsertRelation(f, t, ty)
       \/ \E s, t \in 1..MaxStoreEntityId : s # t /\ MergeEntities(s, t)
       \/ Cleanup

SpecRelation == Init /\ [][NextRelation]_vars

(***************************************************************************)
(* merge_entities as a function of the store: every input store below is   *)
(* one the schema admits (unique (type, name), unique alias, unique        *)
(* triple, every reference resolving), and merge_entities is applied once  *)
(***************************************************************************)
RECURSIVE SetsUpTo(_, _)
\* the subsets of S with at most n elements
SetsUpTo(S, n) ==
    IF n = 0 THEN {{}}
    ELSE LET P == SetsUpTo(S, n - 1) IN P \cup {q \cup {x} : q \in P, x \in S}

InputIds == {1, 2, 3}
AliasStrings == {"a", "d"}

\* entities 1 and 2 are (Person, a) and (Person, b); entity 3 has a name of
\* its own or shares the name of entity 1 under the other type
InputEntities ==
    {{[id |-> 1, type |-> "Person", name |-> "a", attributes |-> NullAttr],
      [id |-> 2, type |-> "Person", name |-> "b", attributes |-> NullAttr],
      [id |-> 3, type |-> ty, name |-> n, attributes |-> NullAttr]}
        : <<ty, n>> \in {<<"Person", "c">>, <<"Location", "a">>}}

InputRelations ==
    {R \in SetsUpTo([from_entity_id : InputIds, to_entity_id : InputIds,
                     relation_type : RelTypes, strength : {1, 2}],
                    MaxRelationRows) :
        \A r1, r2 \in R :
            (/\ r1.from_entity_id = r2.from_entity_id
             /\ r1.to_entity_id = r2.to_entity_id
             /\ r1.relation_type = r2.relation_type) => r1 = r2}

InputAliases == SetsUpTo([entity_id : InputIds, alias : AliasStrings], 1)

InputLinks == SUBSET [memory_id : {1}, entity_id : InputIds]

MergeInputs ==
    {[entities |-> E, entity_aliases |-> A, relations |-> R,
      memories |-> {[id |-> 1, content |-> "note1"]}, memory_entities |-> L,
      seq_entities |-> 3, seq_memories |-> 1, foreign_keys |-> TRUE]
        : E \in InputEntities, A \in InputAliases, R \in InputRelations,
          L \in InputLinks}

InitMerge ==
    /\ db \in MergeInputs
    /\ last = NoOp
    /\ calls = NoCalls
    /\ ops = 0
    /\ NoFlow

NextMerge ==
    /\ last.op = "init"
    /\ UNCHANGED <<ops, pc, lock, partial>>
    /\ \E s, t \in InputIds : s # t /\ MergeEntities(s, t)

SpecMerge == InitMerge /\ [][NextMerge]_vars

(***************************************************************************)
(* Claims checked on Spec                                                  *)
(***************************************************************************)
\* memories with a link to entity id in store d
MemoriesOf(d, id) == {l.memory_id : l \in {x \in d.memory_entities : x.entity_id = id}}

\* C1: at every operation boundary each relation's from and to entity exist
\* and each entity has at least one memory_entities link
C1_OrphanFreeAfterEveryOperation ==
    /\ DanglingRelations(db) = {}
    /\ UnlinkedEntities(db) = {}

\* entities of the store delete_memory was called on whose only linking
\* memory is the deleted one
SolelyLinked == {e \in last.pre.entities : MemoriesOf(last.pre, e.id) = {last.memory_id}}

\* C2: delete_memory on the only memory linking X succeeds, X and every
\* relation with X as an endpoint are gone, also when X has relations, and
\* each entity linked to some other memory remains
C2_DeleteOnlyMemoryRemovesEntity ==
    (last.op = "delete_memory" /\ SolelyLinked # {}) =>
        /\ ~last.err
        /\ \A x \in SolelyLinked :
              /\ x.id \notin EntityIds(db)
              /\ \A r \in db.relations :
                    r.from_entity_id # x.id /\ r.to_entity_id # x.id
        /\ \A e \in last.pre.entities :
              MemoriesOf(last.pre, e.id) \ {last.memory_id} # {} => e \in db.entities

\* C10: no alias string equals the name of an entity other than the entity
\* its alias row points to
C10_AliasNeverNamesAnotherEntity ==
    \A a \in db.entity_aliases : \A e \in db.entities :
        e.name = a.alias => e.id = a.entity_id

(***************************************************************************)
(* Claims checked on SpecEntity                                            *)
(***************************************************************************)
\* rows of entities with the pair (type, name)
PairRows(d, entity_type, name) ==
    {e \in d.entities : e.type = entity_type /\ e.name = name}

\* C3: no two entity rows share (type, name); upsert_entity on a pair that
\* already exists adds no row and returns the id of the existing row
C3_EntityPairUnique ==
    /\ \A e1, e2 \in db.entities :
          (e1.type = e2.type /\ e1.name = e2.name) => e1 = e2
    /\ (last.op = "upsert_entity" /\ PairRows(last.pre, last.type, last.name) # {}) =>
          /\ EntityIds(db) = EntityIds(last.pre)
          /\ Cardinality(db.entities) = Cardinality(last.pre.entities)
          /\ \A e \in PairRows(last.pre, last.type, last.name) : last.returned = e.id

\* upsert_entity ran on an existing pair while another entity carries the
\* same name under the other type
C3_Witness ==
    /\ last.op = "upsert_entity"
    /\ ~last.err
    /\ PairRows(last.pre, last.type, last.name) # {}
    /\ \E e \in db.entities : e.name = last.name /\ e.type # last.type

\* C4: upserting an existing pair with a non-null attribute object keeps
\* every stored field the new object does not set
C4_AttributesMergeFieldByField ==
    (last.op = "upsert_entity" /\ ~last.attributes.isNull) =>
        \A old \in PairRows(last.pre, last.type, last.name) :
            \A f \in old.attributes.fields :
                (\A g \in last.attributes.fields : g[1] # f[1]) =>
                    \E e \in PairRows(db, last.type, last.name) :
                        f \in e.attributes.fields

(***************************************************************************)
(* Claims checked on SpecRelation                                          *)
(***************************************************************************)
\* C5: a triple has one row, strengths are at least 1, and a row that
\* upsert_relation created and then re-asserted, n calls in all with the
\* row never deleted or rewritten in between, has strength n
C5_StrengthCountsAssertions ==
    /\ \A r1, r2 \in db.relations :
          (/\ r1.from_entity_id = r2.from_entity_id
           /\ r1.to_entity_id = r2.to_entity_id
           /\ r1.relation_type = r2.relation_type) => r1 = r2
    /\ \A r \in db.relations : r.strength >= 1
    /\ \A t \in Triples :
          calls[t] >= 1 =>
              /\ Cardinality(RowsOf(db, t)) = 1
              /\ \A r \in RowsOf(db, t) : r.strength = calls[t]

\* a triple asserted at least twice, beside another relation row
C5_Witness ==
    /\ last.op = "upsert_relation"
    /\ ~last.err
    /\ \E t \in Triples : calls[t] >= 2
    /\ Cardinality(db.relations) >= 2

(***************************************************************************)
(* Claims checked on SpecMerge                                             *)
(***************************************************************************)
\* a merge of two distinct entities of the input store that returned Ok
MergeSucceeded ==
    /\ last.op = "merge_entities"
    /\ ~last.err
    /\ last.source_id # last.target_id
    /\ last.source_id \in EntityIds(last.pre)
    /\ last.target_id \in EntityIds(last.pre)

\* the name and the alias strings the source had before the merge
SourceNames ==
    {get_entity_by_id(last.pre, last.source_id).name}
        \cup get_entity_aliases(last.pre, last.source_id)

\* C6: after merge_entities(A, B) the lookup by name or alias returns B for
\* A's name and for every alias that pointed at A
C6_SourceNamesResolveToTarget ==
    MergeSucceeded =>
        \A n \in SourceNames :
            find_entity_id_by_name_or_alias(db, n) = {last.target_id}

\* C7: after a successful merge_entities(A, B) A has no entity row and no
\* alias, link or relation row references A
C7_NoReferenceToSource ==
    (last.op = "merge_entities" /\ ~last.err) =>
        /\ last.source_id \notin EntityIds(db)
        /\ \A a \in db.entity_aliases : a.entity_id # last.source_id
        /\ \A l \in db.memory_entities : l.entity_id # last.source_id
        /\ \A r \in db.relations :
              r.from_entity_id # last.source_id /\ r.to_entity_id # last.source_id

\* the source had an alias, a link its target also had (left behind by the
\* ignore-on-conflict update) and a relation
C7_Witness ==
    /\ MergeSucceeded
    /\ \E a \in last.pre.entity_aliases : a.entity_id = last.source_id
    /\ \E l \in last.pre.memory_entities :
          /\ l.entity_id = last.source_id
          /\ [l EXCEPT !.entity_id = last.target_id] \in last.pre.memory_entities
    /\ \E r \in last.pre.relations :
          r.from_entity_id = last.source_id \/ r.to_entity_id = last.source_id

\* id with the source replaced by the target
Replaced(id) == IF id = last.source_id THEN last.target_id ELSE id

ReplacedTriple(r) ==
    <<Replaced(r.from_entity_id), Replaced(r.to_entity_id), r.relation_type>>

SourceRelations ==
    {r \in last.pre.relations :
        r.from_entity_id = last.source_id \/ r.to_entity_id = last.source_id}

\* C8: every relation that had A as an endpoint exists after the merge with
\* A replaced by B; when a row with the replaced triple existed before the
\* merge, that row is the one that exists
C8_SourceRelationsMoveToTarget ==
    MergeSucceeded =>
        \A r \in SourceRelations :
            /\ Cardinality(RowsOf(db, ReplacedTriple(r))) = 1
            /\ RowsOf(last.pre, ReplacedTriple(r)) # {} =>
                  RowsOf(db, ReplacedTriple(r)) = RowsOf(last.pre, ReplacedTriple(r))

\* the source had a relation pointing at it that moved, and one from it
\* to the target
C8_Witness ==
    /\ MergeSucceeded
    /\ \E r \in SourceRelations :
          /\ r.to_entity_id = last.source_id
          /\ r.from_entity_id \notin {last.source_id, last.target_id}
          /\ RowsOf(last.pre, ReplacedTriple(r)) = {}
    /\ \E r \in SourceRelations :
          r.from_entity_id = last.source_id /\ r.to_entity_id = last.target_id

\* pairs <<c, type>> for which both the target and the source had a
\* relation to c
Collisions ==
    {<<c, ty>> \in (EntityIds(last.pre) \ {last.source_id}) \X RelTypes :
        /\ RowsOf(last.pre, <<last.target_id, c, ty>>) # {}
        /\ RowsOf(last.pre, <<last.source_id, c, ty>>) # {}}

\* C9: when target has (target, C, t) and source has (source, C, t), one
\* (target, C, t) row remains and it has the strength the target's row had
C9_CollisionKeepsTargetStrength ==
    MergeSucceeded =>
        \A x \in Collisions :
            /\ Cardinality(RowsOf(db, <<last.target_id, x[1], x[2]>>)) = 1
            /\ RowsOf(db, <<last.target_id, x[1], x[2]>>)
                  = RowsOf(last.pre, <<last.target_id, x[1], x[2]>>)

\* a collision on a third entity in which the source's row was the stronger
C9_Witness ==
    /\ MergeSucceeded
    /\ \E x \in Collisions :
          /\ x[1] # last.target_id
          /\ \E rs \in RowsOf(last.pre, <<last.source_id, x[1], x[2]>>) :
             \E rt \in RowsOf(last.pre, <<last.target_id, x[1], x[2]>>) :
                /\ rs.strength > rt.strength
                /\ rt \in db.relations


(***************************************************************************)
(* Alias ownership, checked on Spec                                        *)
(***************************************************************************)
\* the commands that create and destroy entities and aliases, without
\* edits and merges, MaxPruneOps of them in a run
NextPrune ==
    /\ ops < MaxPruneOps
    /\ ops' = ops + 1
    /\ UNCHANGED <<pc, lock, partial>>
    /\ \/ \E c \in Contents : \E p \in Payloads(db, None) : Save(c, p)
       \/ \E m \in 1..MaxMemoryId : DeleteMemory(m)
       \/ Cleanup

SpecPrune == Init /\ [][NextPrune]_vars

\* C11: in every reachable store state each entity_aliases row points to an
\* entity that exists
C11_AliasOwnerExists ==
    \A a \in db.entity_aliases : a.entity_id \in EntityIds(db)


(***************************************************************************)
(* cleanup_database and delete_memory as functions of the store: the input *)
(* stores include inconsistent ones (links to a missing memory or entity,  *)
(* relations with a missing endpoint, entities without a link)             *)
(***************************************************************************)
CleanupIds == {1, 2}

CleanupEntities ==
    SUBSET {[id |-> 1, type |-> "Person", name |-> "a", attributes |-> NullAttr],
            [id |-> 2, type |-> "Person", name |-> "b", attributes |-> NullAttr]}

CleanupRelations ==
    SetsUpTo([from_entity_id : CleanupIds, to_entity_id : CleanupIds,
              relation_type : RelTypes, strength : {1}], MaxRelationRows)

CleanupMemories == SUBSET {[id |-> m, content |-> "note1"] : m \in CleanupIds}

CleanupLinks == SUBSET [memory_id : CleanupIds, entity_id : CleanupIds]

CleanupAliases == SetsUpTo([entity_id : CleanupIds, alias : {"d"}], 1)

CleanupInputs ==
    {[entities |-> E, entity_aliases |-> A, relations |-> R,
      memories |-> M, memory_entities |-> L,
      seq_entities |-> 2, seq_memories |-> 2, foreign_keys |-> TRUE]
        : E \in CleanupEntities, A \in CleanupAliases, R \in CleanupRelations,
          M \in CleanupMemories, L \in CleanupLinks}

InitCleanup ==
    /\ db \in CleanupInputs
    /\ last = NoOp
    /\ calls = NoCalls
    /\ ops = 0
    /\ NoFlow

\* cleanup_db called again right after cleanup_db; last.pre stays the store
\* the first call was made on
CleanupAgain ==
    /\ last.op = "cleanup_database"
    /\ ~last.err
    /\ LET out == cleanup_database(db)
       IN  /\ db' = out.db
           /\ last' = [last EXCEPT !.op = "cleanup_database_again",
                                   !.err = out.err]
    /\ calls' = Track(calls, db, db')

NextCleanup ==
    /\ ops < MaxCleanupOps
    /\ ops' = ops + 1
    /\ UNCHANGED <<pc, lock, partial>>
    /\ \/ last.op # "cleanup_database" /\ Cleanup
       \/ CleanupAgain
       \/ \E m \in 1..MaxMemoryId : DeleteMemory(m)

SpecCleanup == InitCleanup /\ [][NextCleanup]_vars

\* C12: the store after a second cleanup_database in a row is identical to
\* the store after the first, for every input store
C12_CleanupTwiceIsNoOp ==
    last.op = "cleanup_database_again" =>
        /\ ~last.err
        /\ db = cleanup_database(last.pre).db

\* cleanup ran twice on a store that had a link to a missing memory, a
\* relation with a missing endpoint and an entity without a link, and the
\* first run changed the store
C12_Witness ==
    /\ last.op = "cleanup_database_again"
    /\ \E l \in last.pre.memory_entities : l.memory_id \notin MemoryIds(last.pre)
    /\ DanglingRelations(last.pre) # {}
    /\ UnlinkedEntities(last.pre) # {}
    /\ db # last.pre

\* C13: after delete_memory or cleanup_database no relation references a
\* missing entity, also when the entity step removed one endpoint of a
\* relation whose other endpoint survives
C13_NoDanglingRelationAfterPrune ==
    last.op \in {"delete_memory", "cleanup_database", "cleanup_database_again"} =>
        DanglingRelations(db) = {}

\* the entity step removed one endpoint of a relation and the other
\* endpoint is still there
C13_Witness ==
    /\ last.op = "cleanup_database"
    /\ ~last.err
    /\ \E r \in last.pre.relations :
          /\ r \notin db.relations
          /\ r.from_entity_id \in EntityIds(last.pre) \ EntityIds(db)
          /\ r.to_entity_id \in EntityIds(db)


(***************************************************************************)
(* The edit transaction, checked on Spec                                   *)
(***************************************************************************)
\* C14: an edit that fails before its commit leaves the store exactly as it
\* was (the only failure after the commit is get_memory_by_id on a memory
\* that does not exist); an edit that commits shows the memory's new links
\* together with the pruning: no entity without a link, no relation with a
\* missing endpoint that was not there before
C14_EditIsAtomic ==
    [][last'.op = "edit" =>
        /\ (last'.err /\ MemoryExists(db, last'.memory_id)) => db' = db
        /\ ~last'.err =>
              /\ UnlinkedEntities(db') = {}
              /\ DanglingRelations(db') = {}]_vars

\* an edit of a stored memory failed before its commit
C14_Witness ==
    /\ last.op = "edit"
    /\ last.err
    /\ MemoryExists(db, last.memory_id)
    /\ db.relations # {}


(***************************************************************************)
(* lib.rs: the commands as threads.  save, edit and answer run on blocking *)
(* threads (spawn_blocking) and go through model calls and lock scopes;    *)
(* a step that holds the DbState mutex starts by taking it and the step    *)
(* after it starts by dropping the guard.                                  *)
(***************************************************************************)
At(p, label) == pc[p].at = label

Goto(p, label, memory_id) ==
    pc' = [pc EXCEPT ![p] = [at |-> label, memory_id |-> memory_id]]

\* payloads of the threads: nothing, or entity a with or without a -ally-> a
FlowPayloads ==
    [entities : {<<>>, <<[type |-> "Person", name |-> "a", attributes |-> NullAttr]>>},
     aliases : {<<>>},
     relations : {<<>>, <<[from |-> "a", to |-> "a", relation |-> "ally"]>>}]

\* the three statements of delete_memory after DELETE FROM memories
PruneAfterDelete(d) ==
    Then(Then(DeleteDanglingRelations(d),
        LAMBDA d3 : DeleteUnlinkedEntities(d3)),
        LAMBDA d4 : DeleteDanglingRelations(d4))

\* do_save_memory is called; step 1 (call_model_extract) starts, or is
\* skipped for a content of at most 5 bytes
SaveStart(p) ==
    /\ At(p, "idle")
    /\ ops < MaxFlowOps
    /\ ops' = ops + 1
    /\ \E label \in {"save_extract", "save_normalize"} : Goto(p, label, 0)
    /\ UNCHANGED <<db, last, calls, lock, partial>>

\* step 1 returns: Err or no entity aborts the save, otherwise step 2
\* locks the store for collect_relevant_historical_memories
SaveExtracted(p) ==
    /\ At(p, "save_extract")
    /\ \/ Goto(p, "idle", 0) /\ UNCHANGED lock
       \/ lock = 0 /\ lock' = p /\ Goto(p, "save_retrieve", 0)
    /\ UNCHANGED <<db, last, calls, ops, partial>>

\* same step with the guard kept alive past the block
SaveRetrieved_keeps_lock(p) ==
    /\ At(p, "save_retrieve")
    /\ lock = p
    /\ UNCHANGED lock
    /\ Goto(p, IF HasHistory(db, None) THEN "save_fusion" ELSE "save_normalize", 0)
    /\ UNCHANGED <<db, last, calls, ops, partial>>

\* the retrieval block ends, the guard is dropped; step 3 (call_model_fusion)
\* runs when history was found
SaveRetrieved(p) ==
    /\ At(p, "save_retrieve")
    /\ lock = p
    /\ lock' = 0
    /\ Goto(p, IF HasHistory(db, None) THEN "save_fusion" ELSE "save_normalize", 0)
    /\ UNCHANGED <<db, last, calls, ops, partial>>

\* call_model_fusion returns; normalize_time_entities_in_place (model
\* calls) and write_memory follow
SaveFused(p) ==
    /\ At(p, "save_fusion")
    /\ Goto(p, "save_normalize", 0)
    /\ UNCHANGED <<db, last, calls, ops, lock, partial>>

\* step 4 locks the store and runs insert_memory
SavePersistBegin(p) ==
    /\ At(p, "save_normalize")
    /\ lock = 0
    /\ lock' = p
    /\ \E c \in Contents :
          LET m == insert_memory(db, c)
          IN  /\ WithinBounds(m.db)
              /\ db' = m.db
              /\ Goto(p, "save_persist", m.id)
    /\ partial' = TRUE
    /\ UNCHANGED <<last, calls, ops>>

\* the three loops of step 4, then the guard is dropped
SavePersistEnd(p) ==
    /\ At(p, "save_persist")
    /\ lock = p
    /\ \E payload \in FlowPayloads :
       \E c \in PersistGraph(db, pc[p].memory_id, payload) :
          /\ WithinBounds(c.db)
          /\ db' = c.db
          /\ partial' = c.err
    /\ lock' = 0
    /\ Goto(p, "idle", 0)
    /\ UNCHANGED <<last, calls, ops>>

\* do_update_memory is called on memory_id
EditStart(p, memory_id) ==
    /\ At(p, "idle")
    /\ ops < MaxFlowOps
    /\ ops' = ops + 1
    /\ \E label \in {"edit_extract", "edit_normalize"} : Goto(p, label, memory_id)
    /\ UNCHANGED <<db, last, calls, lock, partial>>

EditExtracted(p) ==
    /\ At(p, "edit_extract")
    /\ \/ Goto(p, "idle", 0) /\ UNCHANGED lock
       \/ lock = 0 /\ lock' = p /\ Goto(p, "edit_retrieve", pc[p].memory_id)
    /\ UNCHANGED <<db, last, calls, ops, partial>>

EditRetrieved(p) ==
    /\ At(p, "edit_retrieve")
    /\ lock = p
    /\ lock' = 0
    /\ Goto(p, IF HasHistory(db, pc[p].memory_id) THEN "edit_fusion"
               ELSE "edit_normalize", pc[p].memory_id)
    /\ UNCHANGED <<db, last, calls, ops, partial>>

EditFused(p) ==
    /\ At(p, "edit_fusion")
    /\ Goto(p, "edit_normalize", pc[p].memory_id)
    /\ UNCHANGED <<db, last, calls, ops, lock, partial>>

\* step 4 locks the store and opens the transaction
EditPersistBegin(p) ==
    /\ At(p, "edit_normalize")
    /\ lock = 0
    /\ lock' = p
    /\ Goto(p, "edit_persist", pc[p].memory_id)
    /\ partial' = TRUE
    /\ UNCHANGED <<db, last, calls, ops>>

\* the statements of the transaction, commit or rollback, guard dropped
EditPersistEnd(p) ==
    /\ At(p, "edit_persist")
    /\ lock = p
    /\ \E c \in Contents : \E payload \in FlowPayloads :
       \E out \in EditPersist(db, pc[p].memory_id, c, payload) :
          /\ WithinBounds(out.db)
          /\ db' = out.db
    /\ partial' = FALSE
    /\ lock' = 0
    /\ Goto(p, "idle", 0)
    /\ UNCHANGED <<last, calls, ops>>

\* delete_memory_by_id locks the store; delete_memory runs its first
\* statement
DeleteBegin(p, memory_id) ==
    /\ At(p, "idle")
    /\ ops < MaxFlowOps
    /\ ops' = ops + 1
    /\ lock = 0
    /\ lock' = p
    /\ db' = DeleteMemoryRow(db, memory_id).db
    /\ partial' = TRUE
    /\ Goto(p, "delete", memory_id)
    /\ UNCHANGED <<last, calls>>

\* the pruning statements of delete_memory; an error leaves the statements
\* before it in place; the guard is dropped
DeleteEnd(p) ==
    /\ At(p, "delete")
    /\ lock = p
    /\ LET out == PruneAfterDelete(db)
       IN  /\ db' = out.db
           /\ partial' = out.err
    /\ lock' = 0
    /\ Goto(p, "idle", 0)
    /\ UNCHANGED <<last, calls, ops>>

\* get_graph, get_memories_list, query_entity, get_character_profile: the
\* command locks the store and reads
ReadBegin(p) ==
    /\ At(p, "idle")
    /\ ops < MaxFlowOps
    /\ ops' = ops + 1
    /\ lock = 0
    /\ lock' = p
    /\ Goto(p, "read", 0)
    /\ UNCHANGED <<db, last, calls, partial>>

ReadEnd(p) ==
    /\ At(p, "read")
    /\ lock = p
    /\ lock' = 0
    /\ Goto(p, "idle", 0)
    /\ UNCHANGED <<db, last, calls, ops, partial>>

\* do_answer_question is called; call_model_simple extracts the entity name
AnswerStart(p) ==
    /\ At(p, "idle")
    /\ ops < MaxFlowOps
    /\ ops' = ops + 1
    /\ Goto(p, "answer_entity", 0)
    /\ UNCHANGED <<db, last, calls, lock, partial>>

\* the model call returns; the store is locked for the memory lookup
AnswerRead(p) ==
    /\ At(p, "answer_entity")
    /\ lock = 0
    /\ lock' = p
    /\ Goto(p, "answer_read", 0)
    /\ UNCHANGED <<db, last, calls, ops, partial>>

\* the guard is dropped; without memories the command returns, otherwise
\* call_model_simple produces the answer
AnswerRetrieved(p) ==
    /\ At(p, "answer_read")
    /\ lock = p
    /\ lock' = 0
    /\ Goto(p, IF db.memories = {} THEN "idle" ELSE "answer_model", 0)
    /\ UNCHANGED <<db, last, calls, ops, partial>>

AnswerDone(p) ==
    /\ At(p, "answer_model")
    /\ Goto(p, "idle", 0)
    /\ UNCHANGED <<db, last, calls, ops, lock, partial>>

NextFlow ==
    \E p \in Procs :
       \/ SaveStart(p)
       \/ SaveExtracted(p)
       \/ SaveRetrieved(p)
       \/ SaveFused(p)
       \/ SavePersistBegin(p)
       \/ SavePersistEnd(p)
       \/ \E m \in 1..MaxMemoryId : EditStart(p, m)
       \/ EditExtracted(p)
       \/ EditRetrieved(p)
       \/ EditFused(p)
       \/ EditPersistBegin(p)
       \/ EditPersistEnd(p)
       \/ \E m \in 1..MaxMemoryId : DeleteBegin(p, m)
       \/ DeleteEnd(p)
       \/ ReadBegin(p)
       \/ ReadEnd(p)
       \/ AnswerStart(p)
       \/ AnswerRead(p)
       \/ AnswerRetrieved(p)
       \/ AnswerDone(p)

SpecFlow == Init /\ [][NextFlow]_vars

\* steps during which an external model call is in progress
ModelCallSteps ==
    {"save_extract", "save_fusion", "save_normalize", "edit_extract",
     "edit_fusion", "edit_normalize", "answer_entity", "answer_model"}

\* steps of the retrieval reads and of the persist writes
RetrievalSteps == {"save_retrieve", "edit_retrieve", "answer_read"}

PersistSteps == {"save_persist", "edit_persist"}

\* C15: in the save, edit and answer flows the thread inside a model call
\* does not hold the store lock, and a thread of these flows that holds it
\* is in its retrieval read or in its persist write
C15_NoLockAcrossModelCall ==
    \A p \in Procs :
        /\ pc[p].at \in ModelCallSteps => lock # p
        /\ (lock = p /\ pc[p].at \notin {"read", "delete"}) =>
              pc[p].at \in RetrievalSteps \cup PersistSteps

\* a save is inside call_model_fusion, after its retrieval read, while
\* another thread holds the lock for its persist write
C15_Witness ==
    \E p, q \in Procs :
        /\ pc[p].at = "save_fusion"
        /\ lock = q
        /\ pc[q].at = "save_persist"

\* C16: a read command never runs while another thread is inside its
\* persist phase, and the store it reads never holds only part of a
\* persist phase's writes
C16_ReadsSeeWholePersists ==
    \A p \in Procs :
        pc[p].at = "read" =>
            /\ \A q \in Procs \ {p} : pc[q].at \notin PersistSteps \cup {"delete"}
            /\ ~partial


(***************************************************************************)
(* Write-path resolution: one extracted entity persisted by a save or by   *)
(* an edit, on stores whose names include a name and a longer name that    *)
(* contains it                                                             *)
(***************************************************************************)
ResolveNames == {"a", "ab", "b"}

ResolveRows(id) ==
    {[id |-> id, type |-> ty, name |-> n, attributes |-> NullAttr]
        : ty \in Types, n \in ResolveNames}

\* at most one row per id, no two rows with the same (type, name)
ResolveEntities ==
    {E \in SUBSET (ResolveRows(1) \cup ResolveRows(2)) :
        \A e1, e2 \in E :
            (e1.id = e2.id \/ (e1.type = e2.type /\ e1.name = e2.name)) => e1 = e2}

\* stores with one memory linked to every entity and at most one alias
ResolveInputs ==
    {[entities |-> E, entity_aliases |-> A, relations |-> {},
      memories |-> {[id |-> 1, content |-> "note1"]},
      memory_entities |-> {[memory_id |-> 1, entity_id |-> e.id] : e \in E},
      seq_entities |-> 2, seq_memories |-> 1, foreign_keys |-> TRUE]
        : E \in ResolveEntities,
          A \in SetsUpTo([entity_id : {1, 2}, alias : ResolveNames], 1)}

InitResolve ==
    /\ db \in {d \in ResolveInputs :
                  \A a \in d.entity_aliases : a.entity_id \in EntityIds(d)}
    /\ last = NoOp
    /\ calls = NoCalls
    /\ ops = 0
    /\ NoFlow

OneEntity(e) == [entities |-> <<e>>, aliases |-> <<>>, relations |-> <<>>]

\* save_memory with a payload of the one entity e
ResolveSave(e) ==
    /\ \E out \in SavePersist(db, "note1", OneEntity(e)) :
          /\ db' = out.db
          /\ last' = [NoOp EXCEPT !.op = "save", !.err = out.err, !.pre = db,
                                  !.memory_id = NextId(db.seq_memories, MemoryIds(db)),
                                  !.name = e.name, !.type = e.type]
    /\ calls' = Track(calls, db, db')

\* update_memory_content with a payload of the one entity e
ResolveEdit(memory_id, e) ==
    /\ \E out \in EditPersist(db, memory_id, "note1", OneEntity(e)) :
          /\ db' = out.db
          /\ last' = [NoOp EXCEPT !.op = "edit", !.err = out.err, !.pre = db,
                                  !.memory_id = memory_id,
                                  !.name = e.name, !.type = e.type]
    /\ calls' = Track(calls, db, db')

NextResolve ==
    /\ last.op = "init"
    /\ UNCHANGED <<ops, pc, lock, partial>>
    /\ \E e \in [type : Types, name : ResolveNames, attributes : {NullAttr}] :
          \/ ResolveSave(e)
          \/ ResolveEdit(1, e)

SpecResolve == InitResolve /\ [][NextResolve]_vars

\* ids of the entities linked to the memory the operation wrote
ResolvedIds ==
    {l.entity_id : l \in {x \in db.memory_entities : x.memory_id = last.memory_id}}

\* C17: the extracted entity resolves to an entity with exactly that name
\* if one exists, otherwise to the owner of exactly that alias, otherwise
\* to a new entity with the extracted type and name
C17_ResolutionIsExact ==
    (last.op \in {"save", "edit"} /\ ~last.err) =>
        LET byName == {e.id : e \in {x \in last.pre.entities : x.name = last.name}}
            byAlias == {a.entity_id :
                           a \in {x \in last.pre.entity_aliases : x.alias = last.name}}
        IN  /\ Cardinality(ResolvedIds) = 1
            /\ IF byName # {} THEN ResolvedIds \subseteq byName
               ELSE IF byAlias # {} THEN ResolvedIds = byAlias
               ELSE \E e \in db.entities :
                       /\ e.id \notin EntityIds(last.pre)
                       /\ e.name = last.name
                       /\ e.type = last.type
                       /\ ResolvedIds = {e.id}

\* nothing matched exactly while a stored name and a stored alias contain
\* the extracted name, and a new entity was created
C17_Witness ==
    /\ last.op \in {"save", "edit"}
    /\ ~last.err
    /\ \E e \in last.pre.entities : Like(e.name, last.name)
    /\ \E a \in last.pre.entity_aliases : Like(a.alias, last.name)
    /\ \A e \in last.pre.entities : e.name # last.name
    /\ \A a \in last.pre.entity_aliases : a.alias # last.name
    /\ \E id \in ResolvedIds : id \notin EntityIds(last.pre)


(***************************************************************************)
(* get_graph_data as a function of the store, inconsistent stores included *)
(***************************************************************************)
GraphRelations ==
    {R \in SetsUpTo([from_entity_id : CleanupIds, to_entity_id : CleanupIds,
                     relation_type : RelTypes, strength : {1, MaxStrength}],
                    MaxRelationRows) :
        \A r1, r2 \in R :
            (/\ r1.from_entity_id = r2.from_entity_id
             /\ r1.to_entity_id = r2.to_entity_id
             /\ r1.relation_type = r2.relation_type) => r1 = r2}

GraphInputs ==
    {[d EXCEPT !.relations = R] :
        d \in {x \in CleanupInputs : x.relations = {}}, R \in GraphRelations}

InitGraph ==
    /\ db \in GraphInputs
    /\ last = NoOp
    /\ calls = NoCalls
    /\ ops = 0
    /\ NoFlow

\* get_graph: the store is read, not written
GetGraph ==
    /\ last' = [NoOp EXCEPT !.op = "get_graph_data",
                            !.err = get_graph_data(db).err, !.pre = db]
    /\ UNCHANGED <<db, calls>>

NextGraph ==
    /\ last.op = "init"
    /\ UNCHANGED <<ops, pc, lock, partial>>
    /\ GetGraph

SpecGraph == InitGraph /\ [][NextGraph]_vars

\* C18: get_graph_data returns Ok; the source and the target of each
\* returned link are ids of returned nodes; a relation with a missing
\* endpoint has no link and a relation with both endpoints has its link,
\* with its strength
C18_GraphLinksHaveNodes ==
    last.op = "get_graph_data" =>
        LET g == get_graph_data(last.pre)
            ids == {n.id : n \in g.nodes}
        IN  /\ ~last.err
            /\ db = last.pre
            /\ \A l \in g.links : l.source \in ids /\ l.target \in ids
            /\ \A r \in last.pre.relations :
                  IF r \in DanglingRelations(last.pre)
                  THEN \A l \in g.links :
                          ~(/\ l.source = ToString(r.from_entity_id)
                            /\ l.target = ToString(r.to_entity_id)
                            /\ l.relation = r.relation_type)
                  ELSE \E l \in g.links :
                          /\ l.source = ToString(r.from_entity_id)
                          /\ l.target = ToString(r.to_entity_id)
                          /\ l.relation = r.relation_type
                          /\ l.strength = r.strength

\* the store had a relation with a missing endpoint beside a relation of
\* strength above 1 with both endpoints
C18_Witness ==
    /\ last.op = "get_graph_data"
    /\ DanglingRelations(last.pre) # {}
    /\ \E r \in last.pre.relations \ DanglingRelations(last.pre) : r.strength > 1


(***************************************************************************)
(* model_client.rs: Response Repair.  A text is the sequence of its        *)
(* characters.                                                             *)
(***************************************************************************)
Quote == "\""
Backslash == "\\"

RECURSIVE Repeat(_, _)
\* n copies of character ch
Repeat(ch, n) == IF n <= 0 THEN <<>> ELSE <<ch>> \o Repeat(ch, n - 1)

\* state of the walk before the first character
WalkStart ==
    [depth_square |-> 0, depth_curly |-> 0, in_string |-> FALSE,
     escaped |-> FALSE, last_safe_end |-> 0]

\* one iteration of `for (i, ch) in result.char_indices()` once the escaped
\* flag is known to be down; i is the byte offset of ch, one less than its
\* position in the sequence
WalkChar(w, i, ch) ==
    CASE w.in_string /\ ch = Backslash -> [w EXCEPT !.escaped = TRUE]
      [] w.in_string /\ ch = Quote -> [w EXCEPT !.in_string = FALSE]
      [] w.in_string /\ ch \notin {Backslash, Quote} -> w
      [] ~w.in_string /\ ch = Quote -> [w EXCEPT !.in_string = TRUE]
      [] ~w.in_string /\ ch = "[" -> [w EXCEPT !.depth_square = @ + 1]
      [] ~w.in_string /\ ch = "]" ->
            [w EXCEPT !.depth_square = @ - 1,
                      !.last_safe_end =
                          IF w.depth_square - 1 = 0 /\ w.depth_curly = 0
                          THEN i + 1 ELSE @]
      [] ~w.in_string /\ ch = "{" -> [w EXCEPT !.depth_curly = @ + 1]
      [] ~w.in_string /\ ch = "}" ->
            [w EXCEPT !.depth_curly = @ - 1,
                      !.last_safe_end =
                          IF w.depth_square = 0 /\ w.depth_curly - 1 = 0
                          THEN i + 1 ELSE @]
      [] OTHER -> w

RECURSIVE Walk(_, _, _)
\* the walk over the characters of s from position k on; a character after
\* a backslash only lowers the escaped flag
Walk(s, k, w) ==
    IF k > Len(s) THEN w
    ELSE IF w.escaped THEN Walk(s, k + 1, [w EXCEPT !.escaped = FALSE])
    ELSE Walk(s, k + 1, WalkChar(w, k - 1, s[k]))

\* repair_truncated_json with a walk that counts brackets inside string
\* literals as well
repair_truncated_json_counts_in_strings(s) ==
    LET unquoted == [k \in 1..Len(s) |-> IF s[k] = Quote THEN " " ELSE s[k]]
        w == Walk(unquoted, 1, WalkStart)
        result == s \o Repeat("]", w.depth_square) \o Repeat("}", w.depth_curly)
    IN  IF w.last_safe_end > 0 /\ w.last_safe_end < Len(s)
        THEN [some |-> TRUE, text |-> result]
        ELSE IF w.depth_square = 0 /\ w.depth_curly = 0
        THEN [some |-> FALSE, text |-> <<>>]
        ELSE [some |-> TRUE, text |-> result]

\* repair_truncated_json: Some(result) or None
repair_truncated_json(s) ==
    LET w == Walk(s, 1, WalkStart)
        result == s \o (IF w.in_string THEN <<Quote>> ELSE <<>>)
                    \o Repeat("]", w.depth_square)
                    \o Repeat("}", w.depth_curly)
    IN  IF w.last_safe_end > 0 /\ w.last_safe_end < Len(s)
        THEN [some |-> TRUE, text |-> result]
        ELSE IF w.depth_square = 0 /\ w.depth_curly = 0
        THEN [some |-> FALSE, text |-> <<>>]
        ELSE [some |-> TRUE, text |-> result]


(***************************************************************************)
(* serde_json::from_str as a recogniser: each operator takes the position  *)
(* where a construct starts and returns the position after it, or 0 when   *)
(* the text is not JSON there.                                             *)
(***************************************************************************)
RECURSIVE SkipSpace(_, _)
SkipSpace(s, i) ==
    IF i <= Len(s) /\ s[i] = " " THEN SkipSpace(s, i + 1) ELSE i

RECURSIVE StringBody(_, _)
\* k is a position inside a string literal, after its opening quote
StringBody(s, k) ==
    IF k > Len(s) THEN 0
    ELSE IF s[k] = Quote THEN k + 1
    ELSE IF s[k] = Backslash
    THEN IF k + 1 <= Len(s) /\ s[k + 1] \in {Quote, Backslash, "n"}
         THEN StringBody(s, k + 2) ELSE 0
    ELSE StringBody(s, k + 1)

RECURSIVE Digits(_, _)
Digits(s, k) ==
    IF k <= Len(s) /\ s[k] = "1" THEN Digits(s, k + 1) ELSE k

RECURSIVE ParseValue(_, _)
RECURSIVE ParseElements(_, _)
RECURSIVE ParseMembers(_, _)

ParseValue(s, i) ==
    LET j == SkipSpace(s, i)
    IN  IF j > Len(s) THEN 0
        ELSE IF s[j] = Quote THEN StringBody(s, j + 1)
        ELSE IF s[j] = "1" THEN Digits(s, j + 1)
        ELSE IF s[j] = "["
        THEN LET k == SkipSpace(s, j + 1)
             IN  IF k <= Len(s) /\ s[k] = "]" THEN k + 1
                 ELSE ParseElements(s, k)
        ELSE IF s[j] = "{"
        THEN LET k == SkipSpace(s, j + 1)
             IN  IF k <= Len(s) /\ s[k] = "}" THEN k + 1
                 ELSE ParseMembers(s, k)
        ELSE 0

ParseElements(s, i) ==
    LET v == ParseValue(s, i)
        k == SkipSpace(s, v)
    IN  IF v = 0 \/ k > Len(s) THEN 0
        ELSE IF s[k] = "," THEN ParseElements(s, k + 1)
        ELSE IF s[k] = "]" THEN k + 1
        ELSE 0

ParseMembers(s, i) ==
    LET j == SkipSpace(s, i)
        e == IF j <= Len(s) /\ s[j] = Quote THEN StringBody(s, j + 1) ELSE 0
        c == SkipSpace(s, e)
        v == IF e # 0 /\ c <= Len(s) /\ s[c] = ":" THEN ParseValue(s, c + 1) ELSE 0
        k == SkipSpace(s, v)
    IN  IF v = 0 \/ k > Len(s) THEN 0
        ELSE IF s[k] = "," THEN ParseMembers(s, k + 1)
        ELSE IF s[k] = "}" THEN k + 1
        ELSE 0

\* the whole text is one JSON value, white space around it allowed
Parses(s) ==
    LET j == ParseValue(s, 1)
    IN  j # 0 /\ SkipSpace(s, j) = Len(s) + 1


(***************************************************************************)
(* serde_json::from_str::<ExtractedData>: the derived deserializers of     *)
(* ollama.rs.  Field names are abbreviated to one character:               *)
(* e = entities, r = relations, t = type, n = name, a = attributes,        *)
(* f = from, o = to, l = relation, k = aliases, p = primary, i = alias.    *)
(***************************************************************************)
\* the fields of a struct in declaration order, with their types
StructFields(ty) ==
    IF ty = "ExtractedData"
    THEN <<[name |-> "e", ty |-> "Vec<ExtractedEntity>", required |-> TRUE],
           [name |-> "r", ty |-> "Vec<ExtractedRelation>", required |-> TRUE]>>
    ELSE IF ty = "FusedKnowledge"
    THEN <<[name |-> "e", ty |-> "Vec<ExtractedEntity>", required |-> TRUE],
           [name |-> "k", ty |-> "Vec<EntityAlias>", required |-> FALSE],
           [name |-> "r", ty |-> "Vec<ExtractedRelation>", required |-> TRUE]>>
    ELSE IF ty = "EntityAlias"
    THEN <<[name |-> "p", ty |-> "String", required |-> TRUE],
           [name |-> "i", ty |-> "String", required |-> TRUE]>>
    ELSE IF ty = "ExtractedEntity"
    THEN <<[name |-> "t", ty |-> "String", required |-> TRUE],
           [name |-> "n", ty |-> "String", required |-> TRUE],
           [name |-> "a", ty |-> "Value", required |-> FALSE]>>
    ELSE <<[name |-> "f", ty |-> "String", required |-> TRUE],
           [name |-> "o", ty |-> "String", required |-> TRUE],
           [name |-> "l", ty |-> "String", required |-> TRUE]>>

ElementType(ty) ==
    IF ty = "Vec<ExtractedEntity>" THEN "ExtractedEntity"
    ELSE IF ty = "Vec<EntityAlias>" THEN "EntityAlias"
    ELSE "ExtractedRelation"

\* the index in StructFields(ty) of the field whose name is the string
\* literal at s[j..e-1], or 0 for a name the struct does not have
FieldIndex(s, j, e, ty) ==
    LET fs == StructFields(ty)
        hit == {x \in 1..Len(fs) : e = j + 3 /\ s[j + 1] = fs[x].name}
    IN  IF hit = {} THEN 0 ELSE CHOOSE x \in hit : TRUE

RECURSIVE ParseTyped(_, _, _)
RECURSIVE ParseVec(_, _, _)
RECURSIVE ParseStructMap(_, _, _, _)
RECURSIVE ParseStructSeq(_, _, _, _)

ParseTyped(s, i, ty) ==
    LET j == SkipSpace(s, i)
    IN  IF j > Len(s) THEN 0
        ELSE IF ty = "Value" THEN ParseValue(s, j)
        ELSE IF ty = "String"
        THEN IF s[j] = Quote THEN StringBody(s, j + 1) ELSE 0
        ELSE IF ty \in {"Vec<ExtractedEntity>", "Vec<ExtractedRelation>",
                        "Vec<EntityAlias>"}
        THEN IF s[j] # "[" THEN 0
             ELSE LET k == SkipSpace(s, j + 1)
                  IN  IF k <= Len(s) /\ s[k] = "]" THEN k + 1
                      ELSE ParseVec(s, k, ElementType(ty))
        ELSE IF s[j] = "{"
        THEN LET k == SkipSpace(s, j + 1)
             IN  IF k <= Len(s) /\ s[k] = "}"
                 THEN IF \E x \in 1..Len(StructFields(ty)) : StructFields(ty)[x].required
                      THEN 0 ELSE k + 1
                 ELSE ParseStructMap(s, k, ty, {})
        ELSE IF s[j] = "["
        THEN ParseStructSeq(s, SkipSpace(s, j + 1), ty, 1)
        ELSE 0

\* the elements of a Vec from position i on, up to its closing bracket
ParseVec(s, i, ty) ==
    LET v == ParseTyped(s, i, ty)
        k == SkipSpace(s, v)
    IN  IF v = 0 \/ k > Len(s) THEN 0
        ELSE IF s[k] = "," THEN ParseVec(s, k + 1, ty)
        ELSE IF s[k] = "]" THEN k + 1
        ELSE 0

\* visit_map: the members of a struct written as an object; seen is the set
\* of field indexes read so far
ParseStructMap(s, i, ty, seen) ==
    LET fs == StructFields(ty)
        j == SkipSpace(s, i)
        e == IF j <= Len(s) /\ s[j] = Quote THEN StringBody(s, j + 1) ELSE 0
        x == FieldIndex(s, j, e, ty)
        c == SkipSpace(s, e)
        v == IF e = 0 \/ c > Len(s) \/ s[c] # ":" THEN 0
             ELSE IF x = 0 THEN ParseValue(s, c + 1)
             ELSE IF x \in seen THEN 0
             ELSE ParseTyped(s, c + 1, fs[x].ty)
        k == SkipSpace(s, v)
        now == IF x = 0 THEN seen ELSE seen \cup {x}
    IN  IF e = 0 THEN 0
        ELSE IF v = 0 \/ k > Len(s) THEN 0
        ELSE IF s[k] = "," THEN ParseStructMap(s, k + 1, ty, now)
        ELSE IF s[k] = "}"
        THEN IF \A y \in 1..Len(fs) : fs[y].required => y \in now
             THEN k + 1 ELSE 0
        ELSE 0

\* visit_seq: the fields of a struct written as an array, in declaration
\* order; x is the index of the next field, i the position of the next
\* element or of the closing bracket
ParseStructSeq(s, i, ty, x) ==
    LET fs == StructFields(ty)
    IN  IF i > Len(s) THEN 0
        ELSE IF s[i] = "]"
        THEN IF \A y \in x..Len(fs) : ~fs[y].required THEN i + 1 ELSE 0
        ELSE IF x > Len(fs) THEN 0
        ELSE LET v == ParseTyped(s, i, fs[x].ty)
                 k == SkipSpace(s, v)
             IN  IF v = 0 \/ k > Len(s) THEN 0
                 ELSE IF s[k] = "," THEN
                      LET n == SkipSpace(s, k + 1)
                      IN  IF n <= Len(s) /\ s[n] = "]" THEN 0
                          ELSE ParseStructSeq(s, n, ty, x + 1)
                 ELSE IF s[k] = "]" THEN ParseStructSeq(s, k, ty, x + 1)
                 ELSE 0

\* serde_json::from_str::<ExtractedData>(s).is_ok()
from_str_ExtractedData(s) ==
    LET j == ParseTyped(s, 1, "ExtractedData")
    IN  j # 0 /\ SkipSpace(s, j) = Len(s) + 1

\* serde_json::from_str::<FusedKnowledge>(s).is_ok()
from_str_FusedKnowledge(s) ==
    LET j == ParseTyped(s, 1, "FusedKnowledge")
    IN  j # 0 /\ SkipSpace(s, j) = Len(s) + 1


RECURSIVE TrimStart(_)
TrimStart(s) ==
    IF s # <<>> /\ Head(s) = " " THEN TrimStart(Tail(s)) ELSE s

RECURSIVE TrimEnd(_)
TrimEnd(s) ==
    IF s # <<>> /\ s[Len(s)] = " " THEN TrimEnd(SubSeq(s, 1, Len(s) - 1)) ELSE s

Trim(s) == TrimEnd(TrimStart(s))

StartsWith(s, p) == Len(p) <= Len(s) /\ SubSeq(s, 1, Len(p)) = p

EndsWith(s, p) == Len(p) <= Len(s) /\ SubSeq(s, Len(s) - Len(p) + 1, Len(s)) = p

\* the three characters of a code fence, each written as ~
Fence == <<"~", "~", "~">>

FenceJson == Fence \o <<"j", "s", "o", "n">>

\* extract_json_from_response: the text between the code fences, trimmed
extract_json_from_response(response) ==
    LET s1 == Trim(response)
        s2 == IF StartsWith(s1, FenceJson)
              THEN SubSeq(s1, Len(FenceJson) + 1, Len(s1))
              ELSE IF StartsWith(s1, Fence)
              THEN SubSeq(s1, Len(Fence) + 1, Len(s1))
              ELSE s1
        s3 == IF EndsWith(TrimEnd(s2), Fence)
              THEN SubSeq(TrimEnd(s2), 1, Len(TrimEnd(s2)) - Len(Fence))
              ELSE s2
    IN  Trim(s3)

\* parse_extracted_data that takes the repaired text without parsing it again
parse_extracted_data_trusts_repair(response) ==
    LET json_str == extract_json_from_response(response)
        repaired == repair_truncated_json(json_str)
    IN  IF from_str_ExtractedData(json_str)
        THEN [ok |-> TRUE, via_repair |-> FALSE, text |-> json_str,
              parses |-> 1, repairs |-> 0, response_length |-> 0]
        ELSE IF repaired.some
        THEN [ok |-> TRUE, via_repair |-> TRUE, text |-> repaired.text,
              parses |-> 1, repairs |-> 1, response_length |-> 0]
        ELSE [ok |-> FALSE, via_repair |-> FALSE, text |-> <<>>,
              parses |-> 1, repairs |-> 1, response_length |-> Len(response)]

\* parse_extracted_data: Ok with the text that was deserialized, or Err with
\* the response length its message carries; parses and repairs count the
\* calls of from_str and of repair_truncated_json
parse_extracted_data(response) ==
    LET json_str == extract_json_from_response(response)
        repaired == repair_truncated_json(json_str)
    IN  IF from_str_ExtractedData(json_str)
        THEN [ok |-> TRUE, via_repair |-> FALSE, text |-> json_str,
              parses |-> 1, repairs |-> 0, response_length |-> 0]
        ELSE IF repaired.some /\ from_str_ExtractedData(repaired.text)
        THEN [ok |-> TRUE, via_repair |-> TRUE, text |-> repaired.text,
              parses |-> 2, repairs |-> 1, response_length |-> 0]
        ELSE [ok |-> FALSE, via_repair |-> FALSE, text |-> <<>>,
              parses |-> IF repaired.some THEN 2 ELSE 1, repairs |-> 1,
              response_length |-> Len(response)]

\* parse_fused_knowledge: the same protocol with FusedKnowledge
parse_fused_knowledge(response) ==
    LET json_str == extract_json_from_response(response)
        repaired == repair_truncated_json(json_str)
    IN  IF from_str_FusedKnowledge(json_str)
        THEN [ok |-> TRUE, via_repair |-> FALSE, text |-> json_str,
              parses |-> 1, repairs |-> 0, response_length |-> 0]
        ELSE IF repaired.some /\ from_str_FusedKnowledge(repaired.text)
        THEN [ok |-> TRUE, via_repair |-> TRUE, text |-> repaired.text,
              parses |-> 2, repairs |-> 1, response_length |-> 0]
        ELSE [ok |-> FALSE, via_repair |-> FALSE, text |-> <<>>,
              parses |-> IF repaired.some THEN 2 ELSE 1, repairs |-> 1,
              response_length |-> Len(response)]


(***************************************************************************)
(* The texts given to Response Repair: JSON documents nested up to         *)
(* MaxJsonDepth deep, written as sequences of tokens, and the same         *)
(* documents cut off between two tokens.                                   *)
(***************************************************************************)
MaxJsonDepth == 3

Tok(ch) == <<<<ch>>>>

StrX == <<Quote, "X", Quote>>

\* a string literal holding an escaped quote
StrEsc == <<Quote, Backslash, Quote, Quote>>

\* a string literal holding a bracket
StrBracket == <<Quote, "[", Quote>>

Key(ch) == <<<<Quote, ch, Quote>>>>

Scalars == {<<StrX>>, <<StrEsc>>, <<StrBracket>>, <<<<"1">>>>}

RECURSIVE JsonValues(_)
\* the token sequences of the JSON values nested at most d deep
JsonValues(d) ==
    IF d = 0
    THEN Scalars \cup {Tok("[") \o Tok("]"), Tok("{") \o Tok("}")}
    ELSE LET inner == JsonValues(d - 1)
         IN  inner
             \cup {Tok("[") \o v \o Tok("]") : v \in inner}
             \cup {Tok("[") \o v \o Tok(",") \o Tok("1") \o Tok("]") : v \in inner}
             \cup {Tok("{") \o Key("n") \o Tok(":") \o v \o Tok("}") : v \in inner}

\* one entity with its type and name
EntityTokens ==
    Tok("{") \o Key("t") \o Tok(":") \o <<StrX>> \o Tok(",")
             \o Key("n") \o Tok(":") \o <<StrX>> \o Tok("}")

\* an extraction result {entities: [es], relations: []}
ExtractedDataWith(es) ==
    Tok("{") \o Key("e") \o Tok(":") \o Tok("[") \o es \o Tok("]") \o Tok(",")
             \o Key("r") \o Tok(":") \o Tok("[") \o Tok("]") \o Tok("}")

\* extraction results: with no, one and two entities, without the relations
\* field, and written as an array of the two fields
ExtractedDataTokens ==
    {ExtractedDataWith(es) :
        es \in {<<>>, EntityTokens, EntityTokens \o Tok(",") \o EntityTokens}}
    \cup {Tok("{") \o Key("e") \o Tok(":") \o Tok("[") \o EntityTokens \o Tok("]") \o Tok("}"),
          Tok("[") \o Tok("[") \o EntityTokens \o Tok("]") \o Tok(",")
                   \o Tok("[") \o Tok("]") \o Tok("]")}

\* a fusion result with one alias
FusedKnowledgeTokens ==
    {Tok("{") \o Key("e") \o Tok(":") \o Tok("[") \o Tok("]") \o Tok(",")
              \o Key("k") \o Tok(":") \o Tok("[")
              \o Tok("{") \o Key("p") \o Tok(":") \o <<StrX>> \o Tok(",")
                          \o Key("i") \o Tok(":") \o <<StrX>> \o Tok("}")
              \o Tok("]") \o Tok(",")
              \o Key("r") \o Tok(":") \o Tok("[") \o Tok("]") \o Tok("}")}

DocumentTokens ==
    JsonValues(MaxJsonDepth) \cup ExtractedDataTokens \cup FusedKnowledgeTokens

RECURSIVE Flatten(_)
\* the text of a token sequence
Flatten(ts) == IF ts = <<>> THEN <<>> ELSE Head(ts) \o Flatten(Tail(ts))

\* valid JSON documents, with and without white space after them
ValidTexts ==
    {Flatten(ts) : ts \in DocumentTokens}
    \cup {Flatten(ts) \o <<" ">> : ts \in DocumentTokens}

\* documents cut off between two tokens
TruncatedTexts ==
    UNION {{Flatten(SubSeq(ts, 1, k)) : k \in 1..(Len(ts) - 1)} : ts \in DocumentTokens}

\* extraction results as a model writes them: bare or inside a code fence
FencedTexts ==
    UNION {{FenceJson \o <<" ">> \o Flatten(ts) \o <<" ">> \o Fence,
            Fence \o Flatten(ts) \o Fence,
            <<" ">> \o Flatten(ts)} :
               ts \in {ExtractedDataWith(<<>>), ExtractedDataWith(EntityTokens)}}

\* documents cut off inside a string literal
MidStringTexts ==
    {t \o <<Quote, "X">> : t \in {u \in TruncatedTexts : u[Len(u)] \in {":", "[", ","}}}

\* documents cut off inside a string literal right after a backslash
PendingEscapeTexts == {t \o <<Backslash>> : t \in MidStringTexts}

RepairInputs ==
    ValidTexts \cup TruncatedTexts \cup MidStringTexts \cup PendingEscapeTexts
        \cup FencedTexts

InitRepair ==
    /\ db = EmptyDb
    /\ \E s \in RepairInputs : last = [op |-> "init", input |-> s]
    /\ calls = NoCalls
    /\ ops = 0
    /\ NoFlow

\* repair_truncated_json(input)
Repair ==
    /\ last.op = "init"
    /\ last' = [op |-> "repair_truncated_json", input |-> last.input,
                result |-> repair_truncated_json(last.input)]
    /\ UNCHANGED <<db, calls, ops, pc, lock, partial>>

\* parse_extracted_data(input)
ParseExtracted ==
    /\ last.op = "init"
    /\ last' = [op |-> "parse_extracted_data", input |-> last.input,
                result |-> parse_extracted_data(last.input)]
    /\ UNCHANGED <<db, calls, ops, pc, lock, partial>>

\* parse_fused_knowledge(input)
ParseFused ==
    /\ last.op = "init"
    /\ last' = [op |-> "parse_fused_knowledge", input |-> last.input,
                result |-> parse_fused_knowledge(last.input)]
    /\ UNCHANGED <<db, calls, ops, pc, lock, partial>>

NextRepair == Repair \/ ParseExtracted \/ ParseFused

SpecRepair == InitRepair /\ [][NextRepair]_vars


\* C19: repair_truncated_json applied to a valid JSON document cut off
\* between two tokens returns a text that extends the input and parses.
C19_RepairedTruncationParses ==
    (last.op = "repair_truncated_json" /\ last.input \in TruncatedTexts)
        => /\ last.result.some
           /\ StartsWith(last.result.text, last.input)
           /\ Parses(last.result.text)

\* C20: for a text that is already valid JSON, repair_truncated_json returns
\* nothing or the text itself, and parse_extracted_data answers with the
\* strict parse of the text as it was given, nothing appended.
C20_ValidJsonUnchanged ==
    /\ (last.op = "repair_truncated_json" /\ Parses(last.input))
           => (last.result.some => last.result.text = last.input)
    /\ (last.op = "parse_extracted_data" /\ Parses(last.input))
           => /\ last.result.ok = from_str_ExtractedData(last.input)
              /\ ~last.result.via_repair
              /\ last.result.ok => last.result.text = Trim(last.input)

\* a valid nested document followed by white space went through the repair
\* and came back as it was
C20_Witness ==
    /\ last.op = "repair_truncated_json"
    /\ Parses(last.input)
    /\ Len(last.input) > 4
    /\ \E k \in 1..Len(last.input) : last.input[k] = Quote
    /\ last.result.some
    /\ last.result.text = last.input


\* what from_str answers for the type the parse function deserializes into
Accepts(op, s) ==
    IF op = "parse_fused_knowledge" THEN from_str_FusedKnowledge(s)
    ELSE from_str_ExtractedData(s)

\* C21: parsing a response is one strict parse; only when it fails, one
\* repair and one more parse; when that fails too, an error carrying the
\* response length.  A result always comes from a text the parser accepted.
C21_ParseProtocol ==
    last.op \in {"parse_extracted_data", "parse_fused_knowledge"}
        => LET r == last.result
               json_str == extract_json_from_response(last.input)
               strict == Accepts(last.op, json_str)
               repaired == repair_truncated_json(json_str)
           IN  /\ r.repairs <= 1
               /\ r.parses <= 1 + r.repairs
               /\ strict => r.ok /\ ~r.via_repair /\ r.repairs = 0 /\ r.text = json_str
               /\ r.ok => Accepts(last.op, r.text)
               /\ (r.ok /\ r.via_repair)
                     => ~strict /\ repaired.some /\ r.text = repaired.text
               /\ ~r.ok => ~strict /\ r.response_length = Len(last.input)

\* a truncated fusion result was repaired and parsed at the second attempt
C21_Witness ==
    /\ last.op = "parse_fused_knowledge"
    /\ last.result.ok
    /\ last.result.via_repair
    /\ last.result.parses = 2


\* C30: when the text given to repair_truncated_json ends inside a string
\* literal, also right after a backslash, the repaired text has that literal
\* closed by the quote appended at the end of the input.
C30_OpenStringIsClosed ==
    (last.op = "repair_truncated_json"
        /\ last.input \in MidStringTexts \cup PendingEscapeTexts)
        => LET opening == IF last.input \in PendingEscapeTexts
                          THEN Len(last.input) - 2 ELSE Len(last.input) - 1
           IN  /\ last.result.some
               /\ StringBody(last.result.text, opening + 1) = Len(last.input) + 2


(***************************************************************************)
(* lib.rs: the Time Normalizer.  A text is the sequence of its characters; *)
(* the characters of the words for today, tomorrow and the day after       *)
(* tomorrow are written jin, ming, hou and tian.  A date is a day number.  *)
(***************************************************************************)
TIME_NORMALIZE_AI_MAX_CALLS == 4

\* Option<NaiveDate>
NoDate == [some |-> FALSE, date |-> 0]

SomeDate(n) == [some |-> TRUE, date |-> n]

\* str::contains
ContainsText(s, sub) ==
    \E k \in 1..(Len(s) - Len(sub) + 1) : SubSeq(s, k, k + Len(sub) - 1) = sub

\* Option<i64>
NoWeekday == [some |-> FALSE, index |-> 0]

SomeWeekday(i) == [some |-> TRUE, index |-> i]

\* the characters for one .. six, day (ri) and sky (tian)
weekday_index_from_char(ch) ==
    CASE ch = "yi" -> SomeWeekday(0)
      [] ch = "er" -> SomeWeekday(1)
      [] ch = "san" -> SomeWeekday(2)
      [] ch = "si" -> SomeWeekday(3)
      [] ch = "wu" -> SomeWeekday(4)
      [] ch = "liu" -> SomeWeekday(5)
      [] ch \in {"ri", "tian"} -> SomeWeekday(6)
      [] OTHER -> NoWeekday

\* base.weekday().num_days_from_monday(): day number 0 is a Monday
num_days_from_monday(base) == base % 7

week_start_monday(base) == base - num_days_from_monday(base)

\* str::find: the position of the first occurrence, 0 when there is none
FindText(s, sub) ==
    LET hits == {k \in 1..(Len(s) - Len(sub) + 1) :
                    SubSeq(s, k, k + Len(sub) - 1) = sub}
    IN  IF hits = {} THEN 0 ELSE CHOOSE k \in hits : \A j \in hits : k <= j

RECURSIVE WeekdayOfTail(_)
\* the loop of find_weekday_after_marker over the text after the marker:
\* blanks and the particle de are skipped, mo (end) is the sixth day
WeekdayOfTail(tail) ==
    IF tail = <<>> THEN NoWeekday
    ELSE IF Head(tail) \in {" ", "de"} THEN WeekdayOfTail(Tail(tail))
    ELSE IF Head(tail) = "mo" THEN SomeWeekday(5)
    ELSE weekday_index_from_char(Head(tail))

find_weekday_after_marker(text, marker) ==
    LET idx == FindText(text, marker)
    IN  IF idx = 0 THEN NoWeekday
        ELSE WeekdayOfTail(SubSeq(text, idx + Len(marker), Len(text)))

\* Option::or_else
OrElse(a, b) == IF a.some THEN a ELSE b

\* `if date < reference { date += ChronoDuration::days(7) }`
NotBefore(date, reference) == IF date < reference THEN date + 7 ELSE date

\* parse_date_from_time_text_rule for texts without digits, separators, the
\* characters for year and month and the character hou after ri or tian
\* (the day-offset markers): the first three rules and the weekday rules are
\* the ones that can match such a text.  xia zhou and xia xing qi are the
\* markers of next week, ben zhou and zhe zhou those of this week.
parse_date_from_time_text_rule(text, reference) ==
    LET trimmed == Trim(text)
        next_week == OrElse(find_weekday_after_marker(trimmed, <<"xia", "zhou">>),
                            find_weekday_after_marker(trimmed, <<"xia", "xing", "qi">>))
        this_week == OrElse(find_weekday_after_marker(trimmed, <<"ben", "zhou">>),
                            find_weekday_after_marker(trimmed, <<"zhe", "zhou">>))
        bare_week == find_weekday_after_marker(trimmed, <<"zhou">>)
        monday == week_start_monday(reference)
    IN  IF trimmed = <<>> THEN NoDate
        ELSE IF ContainsText(trimmed, <<"jin", "tian">>) THEN SomeDate(reference)
        ELSE IF ContainsText(trimmed, <<"ming", "tian">>) THEN SomeDate(reference + 1)
        ELSE IF ContainsText(trimmed, <<"hou", "tian">>) THEN SomeDate(reference + 2)
        ELSE IF next_week.some THEN SomeDate(monday + 7 + next_week.index)
        ELSE IF this_week.some
        THEN SomeDate(NotBefore(monday + this_week.index, reference))
        ELSE IF bare_week.some
        THEN SomeDate(NotBefore(monday + bare_week.index, reference))
        ELSE NoDate

\* normalize_time_text_with_model: what the model answers for a text;
\* answers.known are the texts it gives a date for
normalize_time_text_with_model(answers, reference, time_text) ==
    IF Trim(time_text) \in answers.known THEN SomeDate(answers.date) ELSE NoDate

\* d.format("%Y-%m-%d"), for day numbers 0..9
FormatDate(n) == <<"D", <<"0", "1", "2", "3", "4", "5", "6", "7", "8", "9">>[n + 1]>>

\* str::eq_ignore_ascii_case on the type names used here
AsciiLower(type) ==
    CASE type = "Time" -> "time"
      [] type = "Person" -> "person"
      [] OTHER -> type

\* serde_json::Map::insert on the set of members of an object
MapInsert(fields, key, value) ==
    {f \in fields : f[1] # key} \cup {<<key, value>>}

\* Map::entry(key).or_insert(value)
MapOrInsert(fields, key, value) ==
    IF \E f \in fields : f[1] = key THEN fields ELSE fields \cup {<<key, value>>}

\* the attributes written on a renamed Time entity
NormalizedAttributes(existing, original_name, normalized_name, method, reference) ==
    LET attrs0 == IF existing.isNull THEN {}
                  ELSE IF "scalar" \in DOMAIN existing
                  THEN {<<"raw_attributes", existing.scalar>>}
                  ELSE existing.fields
        attrs1 == MapOrInsert(attrs0, "original_time_text", original_name)
        attrs2 == MapInsert(attrs1, "normalized_date", normalized_name)
        attrs3 == MapInsert(attrs2, "normalized_by", method)
        attrs4 == MapInsert(attrs3, "reference_date", FormatDate(reference))
    IN  [isNull |-> FALSE, fields |-> attrs4]

\* the test that lets the loop call the model, with the cap off by one
MayCallModel_one_more(resolved, ai_calls) ==
    ~resolved.some /\ ai_calls <= TIME_NORMALIZE_AI_MAX_CALLS

\* resolved.is_none() && ai_calls < TIME_NORMALIZE_AI_MAX_CALLS
MayCallModel(resolved, ai_calls) ==
    ~resolved.some /\ ai_calls < TIME_NORMALIZE_AI_MAX_CALLS

\* the state of normalize_time_entities_in_place before its loop; asked
\* lists the texts given to the model, in order
NormalizeStart(entities) ==
    [entities |-> entities, rename_map |-> {}, cache |-> <<>>, ai_calls |-> 0,
     asked |-> <<>>]

\* one turn of `for entity in entities.iter_mut()`, for entity number k
NormalizeEntity(st, k, answers, reference) ==
    LET entity == st.entities[k]
        original_name == Trim(entity.name)
        cached == {c \in 1..Len(st.cache) : st.cache[c].key = original_name}
        rule == parse_date_from_time_text_rule(original_name, reference)
        call == MayCallModel(rule, st.ai_calls)
        model == normalize_time_text_with_model(answers, reference, original_name)
        resolved == IF rule.some
                    THEN [some |-> TRUE, name |-> FormatDate(rule.date), method |-> "rule"]
                    ELSE IF call /\ model.some
                    THEN [some |-> TRUE, name |-> FormatDate(model.date), method |-> "model"]
                    ELSE [some |-> FALSE, name |-> <<>>, method |-> ""]
        normalized == IF cached # {} THEN st.cache[CHOOSE c \in cached : TRUE].value
                      ELSE resolved
        looked == IF cached # {} THEN st
                  ELSE [st EXCEPT
                          !.cache = Append(@, [key |-> original_name, value |-> resolved]),
                          !.ai_calls = IF call THEN @ + 1 ELSE @,
                          !.asked = IF call THEN Append(@, original_name) ELSE @]
    IN  IF AsciiLower(entity.type) # "time" \/ original_name = <<>> THEN st
        ELSE IF ~normalized.some \/ normalized.name = original_name THEN looked
        ELSE [looked EXCEPT
                !.rename_map = {r \in @ : r[1] # original_name}
                                   \cup {<<original_name, normalized.name>>},
                !.entities[k] =
                    [type |-> entity.type, name |-> normalized.name,
                     attributes |->
                        NormalizedAttributes(entity.attributes, original_name,
                                             normalized.name, normalized.method,
                                             reference)]]

RECURSIVE NormalizeLoop(_, _, _, _)
\* the turns of the loop from entity number k on
NormalizeLoop(st, k, answers, reference) ==
    IF k > Len(st.entities) THEN st
    ELSE NormalizeLoop(NormalizeEntity(st, k, answers, reference), k + 1,
                       answers, reference)

\* the lookup of a relation endpoint with the endpoint trimmed first
Renamed_trimmed(rename_map, name) ==
    IF \E r \in rename_map : r[1] = Trim(name)
    THEN (CHOOSE r \in rename_map : r[1] = Trim(name))[2] ELSE name

\* rename_map.get(name), or the name itself
Renamed(rename_map, name) ==
    IF \E r \in rename_map : r[1] = name
    THEN (CHOOSE r \in rename_map : r[1] = name)[2] ELSE name

\* normalize_time_entities_in_place: the entities and relations it leaves,
\* with the number of model calls and the texts they were made on
normalize_time_entities_in_place(entities, relations, answers, reference) ==
    LET st == NormalizeLoop(NormalizeStart(entities), 1, answers, reference)
    IN  [entities |-> st.entities,
         relations |-> [r \in 1..Len(relations) |->
                           [from |-> Renamed(st.rename_map, relations[r].from),
                            to |-> Renamed(st.rename_map, relations[r].to),
                            relation |-> relations[r].relation]],
         ai_calls |-> st.ai_calls, asked |-> st.asked]


(***************************************************************************)
(* Batches for the Time Normalizer                                         *)
(***************************************************************************)
MaxBatch == 6

\* the day process_memory and answer_question take as reference
ReferenceDay == 3

\* the kinds of entity a batch is made of
BatchKinds == {"unknown", "repeat", "today", "person"}

\* the entity of kind c at position k: a Time text no rule matches, one per
\* position; the first of those texts again, with a trailing blank; the word
\* for today; an entity that is not of type Time
BatchEntity(c, k) ==
    CASE c = "unknown" ->
            [type |-> "Time", name |-> Repeat("x", k), attributes |-> NullAttr]
      [] c = "repeat" ->
            [type |-> "time", name |-> <<"x", " ">>,
             attributes |-> [isNull |-> FALSE, fields |-> {}, scalar |-> <<"s">>]]
      [] c = "today" ->
            [type |-> "Time", name |-> <<"jin", "tian">>,
             attributes |-> [isNull |-> FALSE,
                             fields |-> {<<"original_time_text", <<"o">>>>}]]
      [] OTHER ->
            [type |-> "Person", name |-> <<"x">>, attributes |-> NullAttr]

\* the batch whose k-th entity is of kind f[k]
TimeBatch(f) == [k \in DOMAIN f |-> BatchEntity(f[k], k)]

TimeRelations ==
    <<[from |-> <<"x">>, to |-> <<"jin", "tian">>, relation |-> "at"],
      [from |-> <<"x", " ">>, to |-> <<"x", "x">>, relation |-> "before"]>>

\* what the model is able to answer: nothing, every text, the first text
TimeAnswers ==
    {[known |-> K, date |-> 5] :
        K \in {{}, {Repeat("x", k) : k \in 1..(MaxBatch + 1)}, {<<"x">>}}}

InitTime ==
    /\ db = EmptyDb
    /\ \E n \in 0..MaxBatch, a \in TimeAnswers :
          \E f \in [1..n -> BatchKinds] :
             last = [op |-> "init", entities |-> TimeBatch(f),
                     relations |-> TimeRelations, answers |-> a]
    /\ calls = NoCalls
    /\ ops = 0
    /\ NoFlow

\* normalize_time_entities_in_place(entities, relations, config, reference)
NormalizeTime ==
    /\ last.op = "init"
    /\ last' = [op |-> "normalize_time_entities_in_place",
                entities |-> last.entities, relations |-> last.relations,
                answers |-> last.answers,
                result |-> normalize_time_entities_in_place(
                              last.entities, last.relations, last.answers,
                              ReferenceDay)]
    /\ UNCHANGED <<db, calls, ops, pc, lock, partial>>

NextTime == NormalizeTime

SpecTime == InitTime /\ [][NextTime]_vars

\* the trimmed names of the Time entities of a batch
TimeNames(entities) ==
    {Trim(entities[k].name) :
        k \in {j \in 1..Len(entities) : AsciiLower(entities[j].type) = "time"}}

\* C26: one call of normalize_time_entities_in_place makes at most
\* TIME_NORMALIZE_AI_MAX_CALLS calls of the model, and each of them on the
\* name of a Time entity of the batch for which the rule parser returned
\* nothing.
C26_ModelCallsCapped ==
    last.op = "normalize_time_entities_in_place" =>
        /\ last.result.ai_calls <= TIME_NORMALIZE_AI_MAX_CALLS
        /\ Len(last.result.asked) = last.result.ai_calls
        /\ \A k \in 1..Len(last.result.asked) :
              /\ last.result.asked[k] \in TimeNames(last.entities)
              /\ ~parse_date_from_time_text_rule(last.result.asked[k],
                                                 ReferenceDay).some

\* a batch with more unresolved Time names than the cap and a name the rule
\* parser resolves: the model was called up to the cap
C26_Witness ==
    /\ last.op = "normalize_time_entities_in_place"
    /\ Cardinality({n \in TimeNames(last.entities) :
                      ~parse_date_from_time_text_rule(n, ReferenceDay).some})
          > TIME_NORMALIZE_AI_MAX_CALLS
    /\ \E n \in TimeNames(last.entities) :
          parse_date_from_time_text_rule(n, ReferenceDay).some
    /\ last.result.ai_calls = TIME_NORMALIZE_AI_MAX_CALLS


\* C25: after clear_all_data the entities, entity_aliases, relations,
\* memories and memory_entities tables are empty and the id sequences are
\* reset: the next entity inserted and the next memory inserted get id 1.
C25_ClearEmptiesAndResetsIds ==
    last.op = "clear_all_data" =>
        /\ ~last.err
        /\ db.entities = {}
        /\ db.entity_aliases = {}
        /\ db.relations = {}
        /\ db.memories = {}
        /\ db.memory_entities = {}
        /\ upsert_entity(db, "Person", "a", NullAttr).id = 1
        /\ insert_memory(db, "note1").id = 1

\* clear_all_data ran on a store that held memories, entities and links and
\* had handed out ids
C25_Witness ==
    /\ last.op = "clear_all_data"
    /\ last.pre.entities # {}
    /\ last.pre.memories # {}
    /\ last.pre.memory_entities # {}
    /\ last.pre.seq_entities >= 1
    /\ last.pre.seq_memories >= 1


\* C29: after a merge_entities(A, B) that returned Ok, every memory that was
\* linked to A or to B before the merge is linked to B, by exactly one
\* memory_entities row, and B has no other memory.
C29_MergeRelinksMemories ==
    (last.op = "merge_entities" /\ ~last.err) =>
        /\ MemoriesOf(db, last.target_id) =
              MemoriesOf(last.pre, last.source_id)
                 \cup MemoriesOf(last.pre, last.target_id)
        /\ \A m \in MemoriesOf(last.pre, last.source_id)
                       \cup MemoriesOf(last.pre, last.target_id) :
              Cardinality({l \in db.memory_entities :
                              l.memory_id = m /\ l.entity_id = last.target_id}) = 1

\* a merge that returned Ok on a store where one memory was linked to both
\* entities and another to the source only
C29_Witness ==
    /\ last.op = "merge_entities"
    /\ ~last.err
    /\ MemoriesOf(last.pre, last.source_id) \cap MemoriesOf(last.pre, last.target_id) # {}
    /\ MemoriesOf(last.pre, last.source_id) \ MemoriesOf(last.pre, last.target_id) # {}


(***************************************************************************)
(* lib.rs: retrieval of historical memories for fusion.  A text is a       *)
(* record [head, pad]: the characters of head followed by pad characters   *)
(* that are neither ASCII alphanumeric, nor CJK, nor white space (a row of *)
(* full stops), so that texts of hundreds of characters stay small.  zhang *)
(* and san stand for two CJK characters.                                   *)
(***************************************************************************)
RAG_CANDIDATES_PER_ENTITY == 8
RAG_TOP_K == 6
RAG_MAX_CONTEXT_CHARS == 2800
RAG_MAX_MEMORY_CHARS == 520

\* RAG_MIN_RELEVANCE_SCORE = 0.12, in hundredths
RAG_MIN_RELEVANCE_SCORE == 12

Text(head, pad) == [head |-> head, pad |-> pad]

\* str::chars().count()
CharCount(t) == Len(t.head) + t.pad

\* char::to_ascii_lowercase
to_ascii_lowercase(ch) ==
    CASE ch = "A" -> "a"
      [] ch = "B" -> "b"
      [] OTHER -> ch

\* char::is_ascii_alphanumeric
is_ascii_alphanumeric(ch) ==
    ch \in {"a", "b", "c", "e", "n", "o", "t", "A", "B", "1"}

is_cjk_char(ch) == ch \in {"zhang", "san"}

\* flush_latin: a run of at least two characters is a token
flush_latin(run, out) == IF Len(run) >= 2 THEN Append(out, run) ELSE out

\* flush_cjk: a run of one character is a token, a longer run gives its
\* windows of two characters
flush_cjk(run, out) ==
    IF run = <<>> THEN out
    ELSE IF Len(run) = 1 THEN Append(out, run)
    ELSE out \o [k \in 1..(Len(run) - 1) |-> <<run[k], run[k + 1]>>]

\* one turn of `for raw in text.chars()`
TokenizeChar(st, raw) ==
    LET ch == to_ascii_lowercase(raw)
    IN  IF is_ascii_alphanumeric(ch)
        THEN [tokens |-> flush_cjk(st.cjk_run, st.tokens),
              latin_run |-> Append(st.latin_run, ch), cjk_run |-> <<>>]
        ELSE IF is_cjk_char(raw)
        THEN [tokens |-> flush_latin(st.latin_run, st.tokens),
              latin_run |-> <<>>, cjk_run |-> Append(st.cjk_run, raw)]
        ELSE [tokens |-> flush_cjk(st.cjk_run, flush_latin(st.latin_run, st.tokens)),
              latin_run |-> <<>>, cjk_run |-> <<>>]

RECURSIVE TokenizeFrom(_, _, _)
TokenizeFrom(s, k, st) ==
    IF k > Len(s) THEN st
    ELSE TokenizeFrom(s, k + 1, TokenizeChar(st, s[k]))

\* tokenize_for_rag; the characters of the pad end the runs and give no token
tokenize_for_rag(t) ==
    LET st == TokenizeFrom(t.head, 1,
                           [tokens |-> <<>>, latin_run |-> <<>>, cjk_run |-> <<>>])
    IN  flush_cjk(st.cjk_run, flush_latin(st.latin_run, st.tokens))

\* collect::<HashSet<String>>()
TokenSet(tokens) == {tokens[k] : k \in 1..Len(tokens)}

\* str::to_lowercase on the characters used here
to_lowercase(s) == [k \in 1..Len(s) |-> to_ascii_lowercase(s[k])]

\* str::trim on a text: the pad is not white space
TrimText(t) ==
    IF t.pad = 0 THEN Text(Trim(t.head), 0) ELSE Text(TrimStart(t.head), t.pad)

\* memory_relevance_score.  The score is kept as the numerator of a fraction
\* whose denominator, ScoreScale, is the same for every candidate of one
\* call: 300 * |query_tokens| * |entity_terms| (1 for an empty collection).
ScoreScale(query_tokens, entity_terms) ==
    300 * (IF query_tokens = {} THEN 1 ELSE Cardinality(query_tokens))
        * (IF entity_terms = <<>> THEN 1 ELSE Len(entity_terms))

memory_relevance_score(query_tokens, entity_terms, candidate_content, seed_hits) ==
    LET candidate_tokens == TokenSet(tokenize_for_rag(candidate_content))
        q == IF query_tokens = {} THEN 1 ELSE Cardinality(query_tokens)
        t == IF entity_terms = <<>> THEN 1 ELSE Len(entity_terms)
        token_overlap == IF query_tokens = {} THEN 0
                         ELSE Cardinality(query_tokens \cap candidate_tokens)
        candidate_lc == to_lowercase(candidate_content.head)
        entity_hits == Cardinality({k \in 1..Len(entity_terms) :
                                       ContainsText(candidate_lc, entity_terms[k])})
        seed == IF seed_hits < 3 THEN seed_hits ELSE 3
    IN  [score |-> 65 * 3 * t * token_overlap + 25 * 3 * q * entity_hits
                      + 10 * q * t * seed,
         token_overlap |-> token_overlap, entity_hits |-> entity_hits]

\* truncate_for_prompt: the first max_chars characters and the marker
truncate_for_prompt(input, max_chars) ==
    IF CharCount(input) <= max_chars
    THEN [head |-> input.head, pad |-> input.pad, marked |-> FALSE]
    ELSE IF max_chars <= Len(input.head)
    THEN [head |-> SubSeq(input.head, 1, max_chars), pad |-> 0, marked |-> TRUE]
    ELSE [head |-> input.head, pad |-> max_chars - Len(input.head), marked |-> TRUE]

\* chars().count() of a snippet
SnippetChars(sn) == Len(sn.head) + sn.pad + (IF sn.marked THEN 1 ELSE 0)

RECURSIVE InsertByScore(_, _)
\* place x after the elements of the sorted sequence whose score is not lower
InsertByScore(sorted, x) ==
    IF sorted = <<>> THEN <<x>>
    ELSE IF Head(sorted).score >= x.score
    THEN <<Head(sorted)>> \o InsertByScore(Tail(sorted), x)
    ELSE <<x>> \o sorted

RECURSIVE SortByScore(_, _)
\* scored.sort_by(|a, b| b.0.total_cmp(&a.0)): stable, highest score first
SortByScore(scored, done) ==
    IF scored = <<>> THEN done
    ELSE SortByScore(Tail(scored), InsertByScore(done, Head(scored)))

\* is_relevant
IsRelevant(c, scale) ==
    \/ 100 * c.score >= RAG_MIN_RELEVANCE_SCORE * scale
    \/ c.entity_hits > 0
    \/ c.token_overlap >= 2

\* one turn of the selection loop; st.stopped after `break`
SelectOne(st, c, scale) ==
    LET trimmed == TrimText(c.content)
        allow == IF st.budget_left < RAG_MAX_MEMORY_CHARS
                 THEN st.budget_left ELSE RAG_MAX_MEMORY_CHARS
        snippet == IF CharCount(trimmed) > allow
                   THEN truncate_for_prompt(trimmed, allow)
                   ELSE [head |-> trimmed.head, pad |-> trimmed.pad, marked |-> FALSE]
        used == SnippetChars(snippet)
    IN  IF st.stopped \/ ~IsRelevant(c, scale) THEN st
        ELSE IF st.budget_left = 0 THEN [st EXCEPT !.stopped = TRUE]
        ELSE IF CharCount(trimmed) = 0 \/ used = 0 THEN st
        ELSE [st EXCEPT !.selected = Append(@, [id |-> c.id, text |-> snippet]),
                        !.budget_left = IF used > @ THEN 0 ELSE @ - used]

RECURSIVE SelectLoop(_, _, _, _)
SelectLoop(scored, k, st, scale) ==
    IF k > Len(scored) THEN st
    ELSE SelectLoop(scored, k + 1, SelectOne(st, scored[k], scale), scale)

\* Iterator::take
Take(seq, n) == SubSeq(seq, 1, IF Len(seq) < n THEN Len(seq) ELSE n)

\* the part of collect_relevant_historical_memories after the gathering:
\* candidates is candidate_map in its iteration order, each entry with the
\* memory id, the content and seed_hits; budget is the context budget.  The
\* snippets come with the id of their memory.
SelectSnippets(candidates, extracted_names, new_content, budget) ==
    LET query_tokens == TokenSet(tokenize_for_rag(new_content))
        lowered == [k \in 1..Len(extracted_names) |->
                       to_lowercase(Trim(extracted_names[k]))]
        entity_terms == SelectSeq(lowered, LAMBDA n : Len(n) >= 2)
        scale == ScoreScale(query_tokens, entity_terms)
        scored == [k \in 1..Len(candidates) |->
                     LET r == memory_relevance_score(query_tokens, entity_terms,
                                                     candidates[k].content,
                                                     candidates[k].seed_hits)
                     IN  [score |-> r.score, token_overlap |-> r.token_overlap,
                          entity_hits |-> r.entity_hits,
                          content |-> candidates[k].content,
                          id |-> candidates[k].id]]
        sorted == SortByScore(scored, <<>>)
        st == SelectLoop(Take(sorted, RAG_TOP_K), 1,
                         [selected |-> <<>>, budget_left |-> budget,
                          stopped |-> FALSE], scale)
    IN  IF candidates = <<>> THEN <<>> ELSE st.selected


(***************************************************************************)
(* Candidate sets for the selection                                        *)
(***************************************************************************)
MaxCandidates == 7

\* the names of the extracted entities: four of them are entity terms, the
\* last has one character and is not
SelectNames ==
    <<<<"a", "b">>, <<" ", "b", "c", " ">>, <<"A", "c">>, <<"zhang", "san">>, <<"e">>>>

\* the new note: without a token, or with the tokens note and one
SelectQueries ==
    {Text(<<>>, 0), Text(<<"n", "o", "t", "e", " ", "o", "n", "e">>, 0)}

CandidateKinds == {"seeded", "named", "brief"}

\* the candidate of kind c for memory k: a memory of 600 characters linked
\* to three of the entities that mentions none; a memory of 700 characters
\* linked to one entity whose name it contains; a memory of 100 characters
\* with blanks around it that repeats the note and names two entities
Candidate(c, k) ==
    CASE c = "seeded" ->
            [id |-> k, content |-> Text(<<"t", "o">>, 598), seed_hits |-> 3]
      [] c = "named" ->
            [id |-> k, content |-> Text(<<"t", "b", "c">>, 697), seed_hits |-> 1]
      [] OTHER ->
            [id |-> k,
             content |-> Text(<<" ", "n", "o", "t", "e", " ", "o", "n", "e", " ",
                                "zhang", "san", "A", "B">>, 86),
             seed_hits |-> 2]

\* candidate_map in an iteration order: the entry for kind f[k] is the k-th
CandidateMap(f) == [k \in DOMAIN f |-> Candidate(f[k], k)]

\* the budgets compared with each other
BudgetPairs == {<<520, 521>>, <<600, RAG_MAX_CONTEXT_CHARS>>}

\* another iteration order of the same map
Reversed(seq) == [k \in 1..Len(seq) |-> seq[Len(seq) + 1 - k]]

InitSelect ==
    /\ db = EmptyDb
    /\ \E n \in 0..MaxCandidates, q \in SelectQueries :
          \E f \in [1..n -> CandidateKinds] :
             last = [op |-> "init", candidates |-> CandidateMap(f),
                     names |-> SelectNames, new_content |-> q]
    /\ calls = NoCalls
    /\ ops = 0
    /\ NoFlow

\* the selection of collect_relevant_historical_memories on a candidate map
Select ==
    /\ last.op = "init"
    /\ last' = [op |-> "select", candidates |-> last.candidates,
                names |-> last.names, new_content |-> last.new_content,
                result |-> SelectSnippets(last.candidates, last.names,
                                          last.new_content, RAG_MAX_CONTEXT_CHARS)]
    /\ UNCHANGED <<db, calls, ops, pc, lock, partial>>

\* two calls on the same inputs, the second with a larger budget; each call
\* builds its own HashMap, whose iteration order is its own
SelectWithBudgets(budget, larger, reorder) ==
    /\ last.op = "init"
    /\ last' = [op |-> "select_budgets", candidates |-> last.candidates,
                names |-> last.names, new_content |-> last.new_content,
                budget |-> budget, larger |-> larger, reorder |-> reorder,
                result |-> SelectSnippets(last.candidates, last.names,
                                          last.new_content, budget),
                result_larger |->
                    SelectSnippets(IF reorder THEN Reversed(last.candidates)
                                   ELSE last.candidates,
                                   last.names, last.new_content, larger)]
    /\ UNCHANGED <<db, calls, ops, pc, lock, partial>>

NextSelect ==
    \/ Select
    \/ \E b \in BudgetPairs, reorder \in BOOLEAN : SelectWithBudgets(b[1], b[2], reorder)

SpecSelect == InitSelect /\ [][NextSelect]_vars

RECURSIVE TotalChars(_)
\* the characters of a list of snippets
TotalChars(snippets) ==
    IF snippets = <<>> THEN 0
    ELSE SnippetChars(Head(snippets).text) + TotalChars(Tail(snippets))

\* C22: the snippets collect_relevant_historical_memories returns have at
\* most RAG_MAX_CONTEXT_CHARS characters in total and at most
\* RAG_MAX_MEMORY_CHARS characters each, the truncation marker counted.
C22_SnippetsWithinBudgets ==
    last.op = "select" =>
        /\ TotalChars(last.result) <= RAG_MAX_CONTEXT_CHARS
        /\ \A k \in 1..Len(last.result) :
              SnippetChars(last.result[k].text) <= RAG_MAX_MEMORY_CHARS

\* C23: with everything but the budget held fixed, every snippet returned
\* with a budget is returned, unchanged, with a larger budget.
C23_LargerBudgetKeepsSnippets ==
    last.op = "select_budgets" =>
        \A k \in 1..Len(last.result) :
            \E j \in 1..Len(last.result_larger) :
                last.result_larger[j] = last.result[k]


\* the candidates of the last call with their scores, as the call computes
\* them
ScoredCandidates ==
    LET query_tokens == TokenSet(tokenize_for_rag(last.new_content))
        lowered == [k \in 1..Len(last.names) |-> to_lowercase(Trim(last.names[k]))]
        entity_terms == SelectSeq(lowered, LAMBDA n : Len(n) >= 2)
        scale == ScoreScale(query_tokens, entity_terms)
    IN  {LET r == memory_relevance_score(query_tokens, entity_terms,
                                         last.candidates[k].content,
                                         last.candidates[k].seed_hits)
         IN  [id |-> last.candidates[k].id, score |-> r.score,
              passes |-> IsRelevant(r, scale)]
           : k \in 1..Len(last.candidates)}

\* C28: the selection keeps the candidates that pass the relevance gate and
\* takes up to RAG_TOP_K of them by descending score: while the budget is
\* not used up, a gate-passing candidate is returned when fewer than
\* RAG_TOP_K other gate-passing candidates score as high or higher, however
\* many gate-failing candidates score higher.
C28_GateBeforeTopK ==
    (last.op = "select" /\ TotalChars(last.result) < RAG_MAX_CONTEXT_CHARS) =>
        \A c \in ScoredCandidates :
            (/\ c.passes
             /\ Cardinality({o \in ScoredCandidates :
                                o.passes /\ o.id # c.id /\ o.score >= c.score})
                   < RAG_TOP_K)
            => \E k \in 1..Len(last.result) : last.result[k].id = c.id


(***************************************************************************)
(* collect_relevant_historical_memories on a store                         *)
(***************************************************************************)
\* get_entity_by_name.  Both queries are LIMIT 1 without ORDER BY: the
\* operator gives the set of results the call can have, each with the id of
\* the entity found (None for no hit).  An alias row whose owner is missing
\* makes get_entity_by_id fail, and the call with it.
get_entity_by_name(d, name) ==
    LET byName == {e.id : e \in {x \in d.entities : Like(x.name, name)}}
        byAlias == {a.entity_id : a \in {x \in d.entity_aliases : Like(x.alias, name)}}
    IN  IF byName # {} THEN {[err |-> FALSE, id |-> id] : id \in byName}
        ELSE IF byAlias = {} THEN {[err |-> FALSE, id |-> None]}
        ELSE {[err |-> ~EntityExists(d, id), id |-> id] : id \in byAlias}

\* get_memories_for_entity: the memories linked to the entity.  The store of
\* the model has no created_at, so the order of the rows is not known;
\* MostRecent gives the sets `take(RAG_CANDIDATES_PER_ENTITY)` can keep.
get_memories_for_entity(d, entity_id) ==
    {m \in d.memories :
        [memory_id |-> m.id, entity_id |-> entity_id] \in d.memory_entities}

MostRecent(memories) ==
    IF Cardinality(memories) <= RAG_CANDIDATES_PER_ENTITY THEN {memories}
    ELSE {S \in SUBSET memories : Cardinality(S) = RAG_CANDIDATES_PER_ENTITY}

\* the characters of the contents the model uses
ContentText(content) ==
    CASE content = "note1" -> Text(<<"n", "o", "t", "e", "1">>, 0)
      [] content = "tone" -> Text(<<"t", "o", "n", "e">>, 0)
      [] OTHER -> Text(<<content>>, 0)

\* candidate_map.entry(mem.id).or_insert_with(|| (mem.content, 0)).1 += 1
\* for each memory of the set, but the excluded one
CountSeeds(map, memories, exclude_memory_id) ==
    LET kept == {m \in memories : m.id # exclude_memory_id}
        old == {c \in map : c.id \notin {m.id : m \in kept}}
        hit == {[c EXCEPT !.seed_hits = @ + 1] :
                   c \in {x \in map : x.id \in {m.id : m \in kept}}}
        new == {[id |-> m.id, content |-> ContentText(m.content), seed_hits |-> 1] :
                   m \in {x \in kept : x.id \notin {c.id : c \in map}}}
    IN  old \cup hit \cup new

RECURSIVE GatherCandidates(_, _, _, _, _)
\* `for entity in &extracted.entities`, from entity number k on: the set of
\* outcomes, each an error or a candidate map
GatherCandidates(d, names, k, map, exclude_memory_id) ==
    IF k > Len(names) THEN {[err |-> FALSE, map |-> map]}
    ELSE UNION {
           IF found.err THEN {[err |-> TRUE, map |-> {}]}
           ELSE IF found.id = None
           THEN GatherCandidates(d, names, k + 1, map, exclude_memory_id)
           ELSE UNION {GatherCandidates(d, names, k + 1,
                                        CountSeeds(map, memories, exclude_memory_id),
                                        exclude_memory_id)
                         : memories \in MostRecent(get_memories_for_entity(d, found.id))}
           : found \in get_entity_by_name(d, names[k])}

\* the orders in which a HashMap with these entries can be iterated
IterationOrders(map) ==
    {f \in [1..Cardinality(map) -> map] : \A i, j \in DOMAIN f : f[i] = f[j] => i = j}

\* collect_relevant_historical_memories: the set of its outcomes, each an
\* error or the list of snippets, with the candidate map it was selected from
collect_relevant_historical_memories(d, names, new_content, exclude_memory_id) ==
    UNION {
      IF g.err THEN {[err |-> TRUE, candidates |-> {}, snippets |-> <<>>]}
      ELSE {[err |-> FALSE, candidates |-> g.map,
             snippets |-> SelectSnippets(order,
                                         [k \in 1..Len(names) |-> Chars(names[k])],
                                         ContentText(new_content),
                                         RAG_MAX_CONTEXT_CHARS)]
              : order \in IterationOrders(g.map)}
      : g \in GatherCandidates(d, names, 1, {}, exclude_memory_id)}

\* step 2 of do_save_memory (no memory excluded) and of do_update_memory
\* (the edited memory excluded) for a note and the names extracted from it
Collect(names, new_content, exclude_memory_id) ==
    /\ last.op # "collect"
    /\ \E out \in collect_relevant_historical_memories(db, names, new_content,
                                                       exclude_memory_id) :
          last' = [op |-> "collect", err |-> out.err, pre |-> db,
                   names |-> names, new_content |-> new_content,
                   exclude_memory_id |-> exclude_memory_id,
                   candidates |-> out.candidates, snippets |-> out.snippets]
    /\ UNCHANGED <<db, calls, ops, pc, lock, partial>>


\* the names and notes given to the retrieval
CollectNames == SeqsUpTo(ResolveNames, 2)

CollectContents == {"note1", "tone"}

\* retrieval on the stores of SpecResolve
NextRetrieve ==
    /\ last.op = "init"
    /\ \E names \in CollectNames, c \in CollectContents, x \in {None, 1} :
          Collect(names, c, x)

SpecRetrieve == InitResolve /\ [][NextRetrieve]_vars

\* C27: the candidates are gathered through entities found by exact name or
\* exact alias: every candidate memory is linked to an entity whose name is
\* an extracted name or that owns an alias equal to an extracted name.
C27_GatherByExactNameOrAlias ==
    (last.op = "collect" /\ ~last.err) =>
        \A c \in last.candidates :
            \E k \in 1..Len(last.names) : \E e \in last.pre.entities :
                /\ [memory_id |-> c.id, entity_id |-> e.id] \in last.pre.memory_entities
                /\ \/ e.name = last.names[k]
                   \/ [entity_id |-> e.id, alias |-> last.names[k]]
                         \in last.pre.entity_aliases


MaxRecallOps == 5

\* payloads of the saves before a retrieval: entity a; entity b with the
\* relation b -ally-> b; and, when there is history to fuse with, the same
\* with a as an alias of b
RecallPayloads(d) ==
    LET a == [type |-> "Person", name |-> "a", attributes |-> NullAttr]
        b == [type |-> "Person", name |-> "b", attributes |-> NullAttr]
        bb == [from |-> "b", to |-> "b", relation |-> "ally"]
    IN  {[entities |-> <<a>>, aliases |-> <<>>, relations |-> <<>>],
         [entities |-> <<b>>, aliases |-> <<>>, relations |-> <<bb>>]}
        \cup (IF HasHistory(d, None)
              THEN {[entities |-> <<b>>,
                     aliases |-> <<[primary |-> "b", alias |-> "a"]>>,
                     relations |-> <<bb>>]}
              ELSE {})

\* saves, deletes and cleanups, MaxRecallOps of them, and then the retrieval
\* of a save or an edit
NextRecall ==
    \/ /\ last.op # "collect"
       /\ ops < MaxRecallOps
       /\ ops' = ops + 1
       /\ UNCHANGED <<pc, lock, partial>>
       /\ \/ \E c \in Contents : \E p \in RecallPayloads(db) : Save(c, p)
          \/ \E m \in 1..MaxMemoryId : DeleteMemory(m)
          \/ Cleanup
    \/ \E names \in SeqsUpTo(PayloadNames, 1), c \in CollectContents,
          x \in {None, 1} : Collect(names, c, x)

SpecRecall == Init /\ [][NextRecall]_vars

\* TRUE when the name matches a stored entity, by its name or by an alias
\* whose owner is stored
MatchesStoredEntity(d, name) ==
    \/ \E e \in d.entities : Like(e.name, name)
    \/ \E a \in d.entity_aliases : Like(a.alias, name) /\ EntityExists(d, a.entity_id)

\* the candidates of the last call that pass the relevance gate
PassingCandidates ==
    LET query_tokens == TokenSet(tokenize_for_rag(ContentText(last.new_content)))
        lowered == [k \in 1..Len(last.names) |->
                       to_lowercase(Trim(Chars(last.names[k])))]
        entity_terms == SelectSeq(lowered, LAMBDA n : Len(n) >= 2)
    IN  {c \in last.candidates :
            IsRelevant(memory_relevance_score(query_tokens, entity_terms,
                                              c.content, c.seed_hits),
                       ScoreScale(query_tokens, entity_terms))}

\* C24: collect_relevant_historical_memories returns an empty list, and not
\* an error, when no extracted entity resolves to a stored entity and when
\* none of the candidates passes the relevance gate.
C24_NothingRelevantGivesEmptyList ==
    last.op = "collect" =>
        /\ (\A k \in 1..Len(last.names) : ~MatchesStoredEntity(last.pre, last.names[k]))
              => (~last.err /\ last.snippets = <<>>)
        /\ (~last.err /\ PassingCandidates = {}) => last.snippets = <<>>


\* TRUE when neither the rule parser nor the model gives a date for the name
UnresolvedTime(name) ==
    /\ ~parse_date_from_time_text_rule(Trim(name), ReferenceDay).some
    /\ ~normalize_time_text_with_model(last.answers, ReferenceDay, Trim(name)).some

\* TRUE when endpoint `after` of a relation is what the call may make of
\* endpoint `before`: the same, or the new name of an entity renamed in the
\* batch whose original name (the trimmed name, as kept in
\* original_time_text) is `before`
EndpointKeptOrRenamed(before, after) ==
    \/ after = before
    \/ \E k \in 1..Len(last.entities) :
          /\ last.result.entities[k].name # last.entities[k].name
          /\ Trim(last.entities[k].name) = before
          /\ last.result.entities[k].name = after

C31_FailedOperationChangesNothing ==
    [][(last'.op \in {"save", "delete_memory", "merge_entities"} /\ last'.err)
          => db' = db]_vars


(***************************************************************************)
(* Ingestion with the payload on record: saves and edits from the empty    *)
(* store, MaxIngestOps of them, entities of one type                       *)
(***************************************************************************)
MaxIngestOps == 2

IngestPayloads(d, exclude_memory_id) ==
    {p \in Payloads(d, exclude_memory_id) :
        \A k \in 1..Len(p.entities) : p.entities[k].type = "Person"}

\* save_memory with payload p
IngestSave(p) ==
    /\ \E out \in SavePersist(db, "note1", p) :
          /\ WithinBounds(out.db)
          /\ db' = out.db
          /\ last' = [op |-> "save", err |-> out.err, pre |-> db,
                      memory_id |-> NextId(db.seq_memories, MemoryIds(db)),
                      payload |-> p]
    /\ calls' = Track(calls, db, db')

\* update_memory_content of memory_id with payload p
IngestEdit(memory_id, p) ==
    /\ \E out \in EditPersist(db, memory_id, "note1", p) :
          /\ WithinBounds(out.db)
          /\ db' = out.db
          /\ last' = [op |-> "edit", err |-> out.err, pre |-> db,
                      memory_id |-> memory_id, payload |-> p]
    /\ calls' = Track(calls, db, db')

NextIngest ==
    /\ ops < MaxIngestOps
    /\ ops' = ops + 1
    /\ UNCHANGED <<pc, lock, partial>>
    /\ \/ \E p \in IngestPayloads(db, None) : IngestSave(p)
       \/ \E m \in 1..MaxMemoryId : \E p \in IngestPayloads(db, m) : IngestEdit(m, p)

SpecIngest == Init /\ [][NextIngest]_vars

\* the names of the payload's entity list
EntityNames(p) == {p.entities[k].name : k \in 1..Len(p.entities)}

\* the payload without the relations that have an endpoint outside the
\* entity list and without the alias entries whose primary is outside it
Resolvable(p) ==
    [entities |-> p.entities,
     aliases |-> SelectSeq(p.aliases, LAMBDA a : a.primary \in EntityNames(p)),
     relations |-> SelectSeq(p.relations,
                             LAMBDA r : r.from \in EntityNames(p)
                                        /\ r.to \in EntityNames(p))]

\* C32: a relation with an endpoint that is not a name of the payload's
\* entity list, and an alias entry whose primary is not, have no effect on
\* the ingestion: the store and the result are those of the same payload
\* without these entries.
C32_UnresolvedNamesAreSkipped ==
    /\ last.op = "save" =>
          [db |-> db, err |-> last.err]
             \in SavePersist(last.pre, "note1", Resolvable(last.payload))
    /\ last.op = "edit" =>
          [db |-> db, err |-> last.err]
             \in EditPersist(last.pre, last.memory_id, "note1",
                             Resolvable(last.payload))

\* a save that returned Ok with an entity, a relation to a name outside the
\* entity list and an alias entry whose primary is outside it
C32_Witness ==
    /\ last.op = "save"
    /\ ~last.err
    /\ Len(last.payload.entities) = 1
    /\ \E k \in 1..Len(last.payload.relations) :
          last.payload.relations[k].to \notin EntityNames(last.payload)
    /\ \E k \in 1..Len(last.payload.aliases) :
          last.payload.aliases[k].primary \notin EntityNames(last.payload)
    /\ db.memory_entities # last.pre.memory_entities


\* C38: in every store reached through saves, edits, the merges they
\* trigger, deletes and cleanup, no two entity rows carry the same name,
\* whatever their types.
C38_EntityNamesUnique ==
    \A e, f \in db.entities : e.name = f.name => e.id = f.id

\* a save has just resolved a name to an entity row that another memory
\* already linked, while a second entity row exists
C38_Witness ==
    /\ last.op = "save"
    /\ ~last.err
    /\ \E l, k \in db.memory_entities :
          /\ l.entity_id = k.entity_id
          /\ l.memory_id = last.memory_id
          /\ k.memory_id # last.memory_id
    /\ Cardinality(db.entities) >= 2


(***************************************************************************)
(* Ingestion of payloads with up to three entities, watching the ids the   *)
(* alias loop and the relation loop take from name_to_id                   *)
(***************************************************************************)
MaxStaleOps == 3

PlainEntity(n) == [type |-> "Person", name |-> n, attributes |-> NullAttr]

\* entity lists: the non-empty selections of a, b, c in this order
EntityLists ==
    {<<PlainEntity("a")>>, <<PlainEntity("b")>>, <<PlainEntity("c")>>,
     <<PlainEntity("a"), PlainEntity("b")>>,
     <<PlainEntity("a"), PlainEntity("c")>>,
     <<PlainEntity("b"), PlainEntity("c")>>,
     <<PlainEntity("a"), PlainEntity("b"), PlainEntity("c")>>}

StalePayloads(d, exclude_memory_id) ==
    [entities : EntityLists,
     aliases : IF HasHistory(d, exclude_memory_id)
               THEN SeqsUpTo({a \in [primary : Names, alias : Names] :
                                 a.primary # a.alias}, 1)
               ELSE {<<>>},
     relations : SeqsUpTo({r \in [from : Names, to : Names, relation : RelTypes] :
                              r.from # r.to}, 1)]

\* merge_entities(conn, aid, pid) is about to be called with an id that has
\* no entity row
MergeIsStale(c, alias_info) ==
    LET pid == c.map[alias_info.primary]
        aid == c.map[alias_info.alias]
    IN  /\ ~c.err
        /\ pid # None /\ aid # None /\ pid # aid
        /\ ~(EntityExists(c.db, pid) /\ EntityExists(c.db, aid))

\* upsert_relation(conn, from_id, to_id, ..) is about to be called with an
\* id that has no entity row
RelationIsStale(c, r) ==
    LET from_id == c.map[r.from]
        to_id == c.map[r.to]
    IN  /\ ~c.err
        /\ from_id # None /\ to_id # None
        /\ ~(EntityExists(c.db, from_id) /\ EntityExists(c.db, to_id))

RECURSIVE StaleInAliases(_, _)
StaleInAliases(c, as) ==
    /\ as # <<>>
    /\ \/ MergeIsStale(c, Head(as))
       \/ StaleInAliases(ApplyAlias(c, Head(as)), Tail(as))

RECURSIVE StaleInRelations(_, _)
StaleInRelations(c, rs) ==
    /\ rs # <<>>
    /\ \/ RelationIsStale(c, Head(rs))
       \/ StaleInRelations(ApplyRelation(c, Head(rs)), Tail(rs))

\* the three loops on store d, with the context they end in and whether a
\* call received an id without a row
WatchedGraph(d, memory_id, p) ==
    {[c |-> PersistRelations(PersistAliases(c, p.aliases), p.relations),
      stale |-> \/ StaleInAliases(c, p.aliases)
                \/ StaleInRelations(PersistAliases(c, p.aliases), p.relations)]
        : c \in PersistEntities({[db |-> d, err |-> FALSE, map |-> EmptyMap]},
                                p.entities, memory_id)}

StaleStep(op, memory_id, out, stale) ==
    /\ WithinBounds(out.db)
    /\ db' = out.db
    /\ last' = [op |-> op, err |-> out.err, memory_id |-> memory_id,
                stale |-> stale]
    /\ calls' = Track(calls, db, db')

\* save_memory with payload p
StaleSave(p) ==
    LET m == insert_memory(db, "note1")
    IN  \E w \in WatchedGraph(m.db, m.id, p) :
            StaleStep("save", m.id, SaveReturn(w.c, m.id), w.stale)

\* update_memory_content of memory_id with payload p
StaleEdit(memory_id, p) ==
    LET d1 == clear_memory_entities(update_memory(db, memory_id, "note1").db,
                                    memory_id).db
    IN  \E w \in WatchedGraph(d1, memory_id, p) :
            StaleStep("edit", memory_id, EditCommit(db, memory_id, w.c), w.stale)

NextStale ==
    /\ ops < MaxStaleOps
    /\ ops' = ops + 1
    /\ UNCHANGED <<pc, lock, partial>>
    /\ \/ \E p \in StalePayloads(db, None) : StaleSave(p)
       \/ \E m \in 1..MaxMemoryId : \E p \in StalePayloads(db, m) : StaleEdit(m, p)

SpecStale == Init /\ [][NextStale]_vars

\* C36: during the persist phase of save and edit, every id taken from the
\* name-to-id map for a merge_entities or upsert_relation call is the id of
\* an entity row at the moment of the call.
C36_MapIdsAreLive ==
    last.op \in {"save", "edit"} => ~last.stale


(***************************************************************************)
(* An edit whose phases are separated by other commands: the retrieval     *)
(* phase of thread 1 ends, commands of other threads run, then the persist *)
(* phase runs as one transaction under the store's guard                   *)
(***************************************************************************)
MaxRaceOps == 5

\* the retrieval phase of do_update_memory(memory_id) ends; the guard is
\* dropped until step 4
RaceRetrieved(memory_id) ==
    /\ At(1, "idle")
    /\ Goto(1, "edit_normalize", memory_id)
    /\ last' = [NoOp EXCEPT !.op = "edit_retrieved", !.memory_id = memory_id]
    /\ UNCHANGED <<db, calls>>

\* step 4 of the pending edit; `raced` records that the command just before
\* was a delete_memory_by_id of the edited memory, which existed
RacePersist(p) ==
    /\ At(1, "edit_normalize")
    /\ Goto(1, "idle", 0)
    /\ \E out \in EditPersist(db, pc[1].memory_id, "note1", p) :
          /\ WithinBounds(out.db)
          /\ db' = out.db
          /\ last' = [op |-> "edit", err |-> out.err, pre |-> db,
                      memory_id |-> pc[1].memory_id,
                      entities |-> Len(p.entities),
                      raced |-> /\ last.op = "delete_memory"
                                /\ last.memory_id = pc[1].memory_id
                                /\ MemoryExists(last.pre, pc[1].memory_id)]
    /\ calls' = Track(calls, db, db')

NextRace ==
    /\ ops < MaxRaceOps
    /\ ops' = ops + 1
    /\ UNCHANGED <<lock, partial>>
    /\ \/ \E p \in FlowPayloads : Save("note1", p) /\ UNCHANGED pc
       \/ \E m \in 1..MaxMemoryId : DeleteMemory(m) /\ UNCHANGED pc
       \/ \E m \in 1..MaxMemoryId : RaceRetrieved(m)
       \/ \E p \in FlowPayloads : RacePersist(p)

SpecRace == Init /\ [][NextRace]_vars

\* C39: when the edited memory has no row at the start of the persist phase
\* (delete_memory removed it after the retrieval phase) and the edit carries
\* at least one extracted entity, the persist phase returns an error and
\* leaves the store as it found it: the memory is not recreated and nothing
\* the edit wrote remains.
C39_EditOfDeletedMemoryFails ==
    (/\ last.op = "edit"
     /\ ~MemoryExists(last.pre, last.memory_id)
     /\ last.entities >= 1)
        => /\ last.err
           /\ db = last.pre

\* the persist phase ran right after a delete of the edited memory, with an
\* extracted entity, on a store that still held another memory
C39_Witness ==
    /\ last.op = "edit"
    /\ last.raced
    /\ last.entities >= 1
    /\ ~MemoryExists(last.pre, last.memory_id)
    /\ last.pre.memories # {}


(***************************************************************************)
(* cleanup_database and clear_all_data with a statement that can fail:     *)
(* every conn.execute(..)? returns early when SQLite reports an error      *)
(* (busy database, I/O error, full disk). fault is the number of the       *)
(* statement that fails, 0 when none does                                  *)
(***************************************************************************)
MaxFaultOps == 3

\* statement number i of a call whose statement number fault fails
Execute(fault, i, d, F(_)) == IF fault = i THEN Err(d) ELSE F(d)

cleanup_database_with_fault(d, fault) ==
    Then(Then(Then(Then(Then(Then(
        Execute(fault, 1, d, LAMBDA x : SetForeignKeys(x, FALSE)),
        LAMBDA d1 : Execute(fault, 2, d1, DeleteLinksOfMissingMemories)),
        LAMBDA d2 : Execute(fault, 3, d2, DeleteLinksOfMissingEntities)),
        LAMBDA d3 : Execute(fault, 4, d3, DeleteDanglingRelations)),
        LAMBDA d4 : Execute(fault, 5, d4, DeleteUnlinkedEntities)),
        LAMBDA d5 : Execute(fault, 6, d5, DeleteDanglingRelations)),
        LAMBDA d6 : Execute(fault, 7, d6, LAMBDA x : SetForeignKeys(x, TRUE)))

clear_all_data_with_fault(d, fault) ==
    Then(Then(Then(Then(Then(Then(Then(
        Execute(fault, 1, d, LAMBDA x : SetForeignKeys(x, FALSE)),
        LAMBDA d1 : Execute(fault, 2, d1,
                        LAMBDA x : Ok([x EXCEPT !.memory_entities = {}]))),
        LAMBDA d2 : Execute(fault, 3, d2,
                        LAMBDA x : Ok([x EXCEPT !.relations = {}]))),
        LAMBDA d3 : Execute(fault, 4, d3,
                        LAMBDA x : Ok([x EXCEPT !.entity_aliases = {}]))),
        LAMBDA d4 : Execute(fault, 5, d4,
                        LAMBDA x : Ok([x EXCEPT !.memories = {}]))),
        LAMBDA d5 : Execute(fault, 6, d5,
                        LAMBDA x : Ok([x EXCEPT !.entities = {}]))),
        LAMBDA d6 : Execute(fault, 7, d6,
                        LAMBDA x : Ok([x EXCEPT !.seq_entities = 0,
                                                !.seq_memories = 0]))),
        LAMBDA d7 : Execute(fault, 8, d7, LAMBDA x : SetForeignKeys(x, TRUE)))

\* cleanup_db
CleanupWithFault(fault) ==
    /\ LET out == cleanup_database_with_fault(db, fault)
       IN  /\ fault = 0 => out = cleanup_database(db)
           /\ db' = out.db
           /\ last' = [NoOp EXCEPT !.op = "cleanup_database", !.err = out.err,
                                   !.pre = db, !.returned = fault]
    /\ calls' = Track(calls, db, db')

\* clear_all_data_cmd
ClearAllWithFault(fault) ==
    /\ LET out == clear_all_data_with_fault(db, fault)
       IN  /\ fault = 0 => out = clear_all_data(db)
           /\ db' = out.db
           /\ last' = [NoOp EXCEPT !.op = "clear_all_data", !.err = out.err,
                                   !.pre = db, !.returned = fault]
    /\ calls' = Track(calls, db, db')

NextFault ==
    /\ ops < MaxFaultOps
    /\ ops' = ops + 1
    /\ UNCHANGED <<pc, lock, partial>>
    /\ \/ \E p \in FlowPayloads : Save("note1", p)
       \/ \E m \in 1..MaxMemoryId : DeleteMemory(m)
       \/ \E fault \in 0..7 : CleanupWithFault(fault)
       \/ \E fault \in 0..8 : ClearAllWithFault(fault)

SpecFault == Init /\ [][NextFault]_vars

\* C37: foreign key enforcement is on when a cleanup_database or
\* clear_all_data call has returned, with Ok or with the error of one of
\* its statements.
C37_ForeignKeysOnAfterMaintenance ==
    last.op \in {"cleanup_database", "clear_all_data"} => db.foreign_keys


(***************************************************************************)
(* merge_entities called with ids that may have no entity row, on the      *)
(* stores that saves, deletes and cleanups produce                         *)
(***************************************************************************)
\* saves, deletes and cleanups, MaxRecallOps of them, and then one call of
\* merge_entities
NextMissing ==
    /\ last.op # "merge_entities"
    /\ UNCHANGED <<pc, lock, partial>>
    /\ \/ /\ ops < MaxRecallOps
          /\ ops' = ops + 1
          /\ \/ \E c \in Contents : \E p \in RecallPayloads(db) : Save(c, p)
             \/ \E m \in 1..MaxMemoryId : DeleteMemory(m)
             \/ Cleanup
       \/ /\ UNCHANGED ops
          /\ \E s, t \in 1..MaxEntityId : s # t /\ MergeEntities(s, t)

SpecMissing == Init /\ [][NextMissing]_vars

MaxReference == 13

\* the week markers with the week they name
WeekMarkers ==
    {[week |-> "next", text |-> <<"xia", "zhou">>],
     [week |-> "next", text |-> <<"xia", "xing", "qi">>],
     [week |-> "this", text |-> <<"ben", "zhou">>],
     [week |-> "this", text |-> <<"zhe", "zhou">>],
     [week |-> "bare", text |-> <<"zhou">>]}

\* what can stand between the marker and the weekday
WeekFillers == {<<>>, <<"de">>, <<" ">>}

\* the weekday characters with the index of the day they name (0 = Monday),
\* and a character that names no day
WeekdayWords ==
    {[index |-> 0, ch |-> "yi"], [index |-> 1, ch |-> "er"],
     [index |-> 2, ch |-> "san"], [index |-> 3, ch |-> "si"],
     [index |-> 4, ch |-> "wu"], [index |-> 5, ch |-> "liu"],
     [index |-> 6, ch |-> "ri"], [index |-> 6, ch |-> "tian"],
     [index |-> 7, ch |-> "x"]}

InitWeek ==
    /\ db = EmptyDb
    /\ \E m \in WeekMarkers, f \in WeekFillers, w \in WeekdayWords,
          reference \in 0..MaxReference :
             last = [op |-> "init", week |-> m.week, index |-> w.index,
                     text |-> m.text \o f \o <<w.ch>>, reference |-> reference,
                     result |-> NoDate]
    /\ calls = NoCalls
    /\ ops = 0
    /\ NoFlow

\* parse_date_from_time_text_rule(text, reference)
ParseWeek ==
    /\ last.op = "init"
    /\ last' = [last EXCEPT !.op = "parse_date_from_time_text_rule",
                            !.result = parse_date_from_time_text_rule(
                                           last.text, last.reference)]
    /\ UNCHANGED <<db, calls, ops, pc, lock, partial>>

NextWeek == ParseWeek

SpecWeek == InitWeek /\ [][NextWeek]_vars

\* C34: a weekday of this week is parsed to Monday(reference) + index, the
\* day inside the Monday-start week that contains the reference date, for
\* every reference date and weekday; a weekday of next week is parsed to
\* Monday(reference) + 7 + index.
C34_WeekdayInsideItsWeek ==
    (last.op = "parse_date_from_time_text_rule" /\ last.index <= 6)
        => /\ last.week = "this" =>
                 last.result = SomeDate(week_start_monday(last.reference) + last.index)
           /\ last.week = "next" =>
                 last.result = SomeDate(week_start_monday(last.reference) + 7
                                            + last.index)

=============================================================================
